---- MODULE Spec2Model ----
(***************************************************************************)
(* A model of the request-execution layer of the music discovery API:      *)
(* the CircuitBreaker and retry_with_exponential_backoff of                *)
(* app/resilience.py and the _spotify_api_call wrapper of                  *)
(* app/spotify_client.py that combines them.                               *)
(*                                                                         *)
(* The service runs its handlers as coroutines of one event loop, so the   *)
(* code between two awaits is one atomic step.  Each caller is one         *)
(* coroutine executing breaker.call_with_breaker(                          *)
(* retry_with_exponential_backoff, func, ...); it is suspended while the   *)
(* wrapped function's request is in flight and while it sleeps.            *)
(*                                                                         *)
(* Three specifications share the actions: Spec (any breaker, concurrent   *)
(* callers, the clock), SpecRetry (the retry loop for every combination    *)
(* of its arguments) and SpecApi (_spotify_api_call as configured).        *)
(*                                                                         *)
(* Above that layer: the functions of app/spotify_client.py that call      *)
(* _spotify_api_call and turn its outcome into their return value          *)
(* (SpecGw), and the resolution of the Spotify token of a request by       *)
(* get_current_user of app/routes/auth_routes.py and by the                *)
(* resolve_user_and_token functions of the artists and tracks routes,      *)
(* over the rows of the user_tokens table (SpecAuth).  The database calls  *)
(* are synchronous, so a route function runs from one await to the next    *)
(* in one step.                                                            *)
(*                                                                         *)
(* Time is counted in whole seconds.  Delays handed to asyncio.sleep are    *)
(* counted in 1/Scale of a second.                                         *)
(***************************************************************************)
EXTENDS Integers, Sequences, FiniteSets, TLC

\* ---------------------------------------------------------------- bounds
NumCallers == 2
MaxThreshold == 2
MaxTimeout == 1
MaxExtraFailures == 1
MaxDays == 1
MaxPeriods == 1
MaxRetriesArg == 3
MaxInitialDelay == 2
MaxMaxDelay == 3
MaxBase == 2
MaxRetryAfter == 1
MaxExpiry == 2
MaxPopularity == 1
MaxLimit == 2
MaxCached == 1

\* ------------------------------------------------------ program constants
SecondsPerDay == 86400
Scale == 100
SpotifyFailureThreshold == 5
SpotifyRecoveryTimeout == 60
SpotifyMaxRetries == 3
SpotifyInitialDelay == 1
DefaultMaxDelay == 32
DefaultExponentialBase == 2
DefaultRetryAfter == 1
DefaultExpiresIn == 3600

Callers == 1..NumCallers
NoTime == -1

VARIABLES
    breaker,      \* the CircuitBreaker instance: state, failure_count,
                  \* last_failure_time and its two constructor parameters
    now,          \* datetime.utcnow(), in seconds
    retry,        \* keyword arguments of retry_with_exponential_backoff
    pc,           \* pc[p]: where caller p is inside call_with_breaker
    attempt,      \* attempt[p]: loop variable of the retry loop
    calls,        \* calls[p]: invocations of the wrapped function so far
    sleeps,       \* sleeps[p]: the asyncio.sleep calls made, in order
    outcome,      \* outcome[p]: the result or exception the call ended with
    admitted,     \* admitted[p]: the breaker state in which is_open() let
                  \* the current call of p through
    op,           \* op[p]: the spotify_client function caller p is inside
    result,       \* result[p]: what that function gave back to its caller
    vault,        \* the user_tokens table: row id -> row
    cred,         \* the Authorization header of the request being handled
    handler,      \* the route function handling it
    rpc,          \* where that function is: the await it is suspended at
    spotify_token,      \* its local variable spotify_token
    refresh_token_val,  \* its local variable refresh_token_val
    events,       \* the TokenVault, cache and HTTP calls it has made and the
                  \* fields of the token responses it got, in order
    status,       \* the HTTP status (and the bearer token) it ended with
    table,        \* the user_tokens table keyed by its primary key id, as
                  \* db.py reads and writes it
    query,        \* the recommendation request being handled: the route
                  \* and its parameters, or the arguments of a direct call
                  \* of get_spotify_recommendations
    route,        \* where its handler is, and the handler's locals
    redis,        \* the ResultCache: key -> stored response
    fetched,      \* the Spotify calls made for the request, in order,
                  \* each with what Spotify answered
    reply,        \* the response: HTTP status, results, meta
    playlists,    \* the playlists table: id -> row
    spotify_playlists,  \* the spotify_playlists table of synced playlists
    oauth_states,       \* the oauth_state:<state> keys the Redis server holds
    _auth_states_fallback,  \* the dict of that name in oauth.py
    suspended     \* the locals of the other request in progress, which is
                  \* suspended at an await while this one runs

\* the variables of the layers above call_with_breaker
gwvars == <<op, result>>
authvars == <<vault, cred, handler, rpc, spotify_token, refresh_token_val,
              events, status>>
\* the variables of the playlist tables, of the OAuth states and of the
\* suspended request
storevars == <<playlists, spotify_playlists, oauth_states,
               _auth_states_fallback, suspended>>
\* the variables of the token table and of the routes
routevars == <<table, query, route, redis, fetched, reply, storevars>>
appvars == <<gwvars, authvars, routevars>>
callvars == <<breaker, now, retry, pc, attempt, calls, sleeps, outcome, admitted>>

vars == <<breaker, now, retry, pc, attempt, calls, sleeps, outcome, admitted,
          op, result, vault, cred, handler, rpc, spotify_token,
          refresh_token_val, events, status, table, query, route, redis,
          fetched, reply, playlists, spotify_playlists, oauth_states,
          _auth_states_fallback, suspended>>

Min(a, b) == IF a <= b THEN a ELSE b

RECURSIVE Pow(_, _)
Pow(b, n) == IF n = 0 THEN 1 ELSE b * Pow(b, n - 1)

\* ------------------------------------------------------- CircuitBreaker

\* CircuitBreaker.__init__
NewBreaker(threshold, timeout) ==
    [ state |-> "closed", failure_count |-> 0, last_failure_time |-> NoTime,
      failure_threshold |-> threshold, recovery_timeout |-> timeout ]

\* timedelta.seconds of a non-negative difference of two datetimes: the
\* seconds left over after the whole days have been taken out
Seconds(delta) == delta % SecondsPerDay

\* CircuitBreaker.is_open at time t: the value returned and the breaker left
is_open(b, t) ==
    IF b.state = "closed" THEN [ret |-> FALSE, b |-> b]
    ELSE IF b.state = "open" THEN
        IF Seconds(t - b.last_failure_time) > b.recovery_timeout
        THEN [ret |-> FALSE, b |-> [b EXCEPT !.state = "half-open"]]
        ELSE [ret |-> TRUE, b |-> b]
    ELSE [ret |-> FALSE, b |-> b]

\* record_success without the reset of the failure counter
record_success_noreset(b) ==
    IF b.state = "half-open" THEN [b EXCEPT !.state = "closed"] ELSE b

\* record_success that clears the failure counter in every state
record_success_resetting(b) ==
    IF b.state = "half-open"
    THEN [b EXCEPT !.state = "closed", !.failure_count = 0]
    ELSE [b EXCEPT !.failure_count = 0]

\* CircuitBreaker.record_success
record_success(b) ==
    IF b.state = "half-open"
    THEN [b EXCEPT !.state = "closed", !.failure_count = 0]
    ELSE b

\* record_failure that stops counting once the breaker is open
record_failure_saturating(b, t) ==
    LET c == IF b.state = "open" THEN b.failure_count ELSE b.failure_count + 1 IN
    [b EXCEPT !.failure_count = c,
              !.last_failure_time = t,
              !.state = IF c >= b.failure_threshold /\ b.state # "open"
                        THEN "open" ELSE b.state]

\* record_failure that opens one failure early
record_failure_early(b, t) ==
    LET c == b.failure_count + 1 IN
    [b EXCEPT !.failure_count = c,
              !.last_failure_time = t,
              !.state = IF c + 1 >= b.failure_threshold /\ b.state # "open"
                        THEN "open" ELSE b.state]

\* record_failure that opens one failure late
record_failure_late(b, t) ==
    LET c == b.failure_count + 1 IN
    [b EXCEPT !.failure_count = c,
              !.last_failure_time = t,
              !.state = IF c > b.failure_threshold /\ b.state # "open"
                        THEN "open" ELSE b.state]

\* CircuitBreaker.record_failure at time t
record_failure(b, t) ==
    LET c == b.failure_count + 1 IN
    [b EXCEPT !.failure_count = c,
              !.last_failure_time = t,
              !.state = IF c >= b.failure_threshold /\ b.state # "open"
                        THEN "open" ELSE b.state]

\* ------------------------------------------ retry_with_exponential_backoff

\* the values random.random() is drawn from, in 1/Scale
RandomDraws == {0, 98}

\* the delay with the exponent one too high
BackoffDelay_shifted(r, a, rnd) ==
    LET delay == Min(r.initial_delay * Pow(r.exponential_base, a + 1), r.max_delay)
    IN  IF r.jitter THEN delay * (Scale \div 2 + rnd \div 2)
        ELSE delay * Scale

\* the delay without the cap at max_delay
BackoffDelay_uncapped(r, a, rnd) ==
    LET delay == r.initial_delay * Pow(r.exponential_base, a)
    IN  IF r.jitter THEN delay * (Scale \div 2 + rnd \div 2)
        ELSE delay * Scale

\* the delay computed after the failure of attempt number a (0-based), with
\* rnd the value of random.random(); in 1/Scale of a second
BackoffDelay(r, a, rnd) ==
    LET delay == Min(r.initial_delay * Pow(r.exponential_base, a), r.max_delay)
    IN  IF r.jitter THEN delay * (Scale \div 2 + rnd \div 2)
        ELSE delay * Scale

\* ------------------------------------------------------------------ clock

\* the instants the clock visits: whole days and multiples of the recovery
\* timeout plus one second, and the second before each of them
ClockValues ==
    LET period == breaker.recovery_timeout + 1 IN
    { t \in { d * SecondsPerDay + a * period - f :
                d \in 0..MaxDays, a \in 0..MaxPeriods, f \in {0, 1} } : t >= 0 }

Tick ==
    /\ \E t \in ClockValues : t > now /\ now' = t
    /\ UNCHANGED <<breaker, retry, pc, attempt, calls, sleeps, outcome, admitted>>
    /\ UNCHANGED appvars

\* -------------------------------------- direct calls of the breaker methods

CanFail == breaker.failure_count < breaker.failure_threshold + MaxExtraFailures

IsOpen ==
    /\ breaker' = is_open(breaker, now).b
    /\ breaker' # breaker
    /\ UNCHANGED <<now, retry, pc, attempt, calls, sleeps, outcome, admitted>>
    /\ UNCHANGED appvars

RecordSuccess ==
    /\ breaker' = record_success(breaker)
    /\ breaker' # breaker
    /\ UNCHANGED <<now, retry, pc, attempt, calls, sleeps, outcome, admitted>>
    /\ UNCHANGED appvars

RecordFailure ==
    /\ CanFail
    /\ breaker' = record_failure(breaker, now)
    /\ UNCHANGED <<now, retry, pc, attempt, calls, sleeps, outcome, admitted>>
    /\ UNCHANGED appvars

\* ------------------------------------------------------ call_with_breaker

\* call_with_breaker up to its first suspension: the is_open() test, then
\* either the breaker-open exception or the first invocation of func
Admit(p) ==
    /\ pc[p] = "idle"
    /\ LET r == is_open(breaker, now) IN
        /\ breaker' = r.b
        /\ IF r.ret
           THEN /\ pc' = [pc EXCEPT ![p] = "rejected"]
                /\ outcome' = [outcome EXCEPT ![p] = [kind |-> "breaker_open", attempt |-> -1]]
                /\ UNCHANGED <<attempt, calls, admitted>>
           ELSE /\ pc' = [pc EXCEPT ![p] = "in_flight"]
                /\ attempt' = [attempt EXCEPT ![p] = 0]
                /\ calls' = [calls EXCEPT ![p] = 1]
                /\ admitted' = [admitted EXCEPT ![p] = r.b.state]
                /\ UNCHANGED outcome
    /\ UNCHANGED <<now, retry, sleeps>>

call_with_breaker(p) == Admit(p) /\ UNCHANGED appvars

\* the wrapped function returns: the retry loop returns its result and
\* call_with_breaker records the success
Succeed(p) ==
    /\ pc[p] = "in_flight"
    /\ breaker' = record_success(breaker)
    /\ pc' = [pc EXCEPT ![p] = "returned"]
    /\ outcome' = [outcome EXCEPT ![p] = [kind |-> "result", attempt |-> attempt[p]]]
    /\ UNCHANGED <<now, retry, attempt, calls, sleeps, admitted>>
    /\ UNCHANGED appvars

\* an exception e leaves retry_with_exponential_backoff: call_with_breaker
\* records the failure and re-raises
Propagate(p, e) ==
    /\ CanFail
    /\ breaker' = record_failure(breaker, now)
    /\ pc' = [pc EXCEPT ![p] = "raised"]
    /\ outcome' = [outcome EXCEPT ![p] = e]
    /\ UNCHANGED sleeps

\* call_with_breaker recording a failure for every failed attempt
OnRetryable_counted(p, e) ==
    IF attempt[p] >= retry.max_retries
    THEN Propagate(p, e)
    ELSE \E rnd \in RandomDraws :
            /\ sleeps' = [sleeps EXCEPT ![p] =
                  Append(@, [kind |-> "backoff", attempt |-> attempt[p],
                             exc |-> e.kind,
                             len |-> BackoffDelay(retry, attempt[p], rnd)])]
            /\ pc' = [pc EXCEPT ![p] = "backoff"]
            /\ breaker' = record_failure(breaker, now)
            /\ UNCHANGED outcome

\* the retry loop giving up one attempt late
OnRetryable_extra(p, e) ==
    IF attempt[p] > retry.max_retries
    THEN Propagate(p, e)
    ELSE \E rnd \in RandomDraws :
            /\ sleeps' = [sleeps EXCEPT ![p] =
                  Append(@, [kind |-> "backoff", attempt |-> attempt[p],
                             exc |-> e.kind,
                             len |-> BackoffDelay(retry, attempt[p], rnd)])]
            /\ pc' = [pc EXCEPT ![p] = "backoff"]
            /\ UNCHANGED <<breaker, outcome>>

\* the except clause of the retry loop, for an exception matching
\* retryable_exceptions
OnRetryable(p, e) ==
    IF attempt[p] >= retry.max_retries
    THEN Propagate(p, e)
    ELSE \E rnd \in RandomDraws :
            /\ sleeps' = [sleeps EXCEPT ![p] =
                  Append(@, [kind |-> "backoff", attempt |-> attempt[p],
                             exc |-> e.kind,
                             len |-> BackoffDelay(retry, attempt[p], rnd)])]
            /\ pc' = [pc EXCEPT ![p] = "backoff"]
            /\ UNCHANGED <<breaker, outcome>>

\* a retry loop that lets the exception of the first attempt through
FailRetryable_unretried(p) ==
    /\ pc[p] = "in_flight"
    /\ Propagate(p, [kind |-> "retryable", attempt |-> attempt[p]])
    /\ UNCHANGED <<now, retry, attempt, calls, admitted>>
    /\ UNCHANGED appvars

\* the wrapped function raises an exception matching retryable_exceptions:
\* for _make_request, the httpx.HTTPStatusError that raise_for_status()
\* raises for every response that is not a 2xx, or a transport error
FailRetryable(p) ==
    /\ pc[p] = "in_flight"
    /\ OnRetryable(p, [kind |-> "retryable", attempt |-> attempt[p]])
    /\ UNCHANGED <<now, retry, attempt, calls, admitted>>
    /\ UNCHANGED appvars

\* a retry loop that catches every exception
FailOther_caught(p) ==
    /\ pc[p] = "in_flight"
    /\ OnRetryable(p, [kind |-> "other", attempt |-> attempt[p]])
    /\ UNCHANGED <<now, retry, attempt, calls, admitted>>
    /\ UNCHANGED appvars

\* the wrapped function raises an exception that does not match
FailOther(p) ==
    /\ pc[p] = "in_flight"
    /\ Propagate(p, [kind |-> "other", attempt |-> attempt[p]])
    /\ UNCHANGED <<now, retry, attempt, calls, admitted>>
    /\ UNCHANGED appvars

\* asyncio.sleep(delay) of the retry loop is over: the next attempt
Wake(p) ==
    /\ pc[p] = "backoff"
    /\ attempt' = [attempt EXCEPT ![p] = @ + 1]
    /\ calls' = [calls EXCEPT ![p] = @ + 1]
    /\ pc' = [pc EXCEPT ![p] = "in_flight"]
    /\ UNCHANGED <<breaker, now, retry, sleeps, outcome, admitted>>
    /\ UNCHANGED appvars

\* --------------------------------------- _spotify_api_call._make_request

\* the Retry-After header values, in seconds; the header may be absent
RetryAfterValues == 1..MaxRetryAfter

\* the response has status 429: sleep for Retry-After seconds
RateLimited(p) ==
    /\ pc[p] = "in_flight"
    /\ \E ra \in RetryAfterValues \cup {DefaultRetryAfter} :
          sleeps' = [sleeps EXCEPT ![p] =
              Append(@, [kind |-> "retry_after", attempt |-> attempt[p],
                         exc |-> "rate_limit", len |-> ra * Scale])]
    /\ pc' = [pc EXCEPT ![p] = "rate_wait"]
    /\ UNCHANGED <<breaker, now, retry, attempt, calls, outcome, admitted>>
    /\ UNCHANGED appvars

\* the Retry-After sleep is over: raise HTTPStatusError, which matches
\* retryable_exceptions
RateLimitRaise(p) ==
    /\ pc[p] = "rate_wait"
    /\ OnRetryable(p, [kind |-> "rate_limit", attempt |-> attempt[p]])
    /\ UNCHANGED <<now, retry, attempt, calls, admitted>>
    /\ UNCHANGED appvars

\* the caller has its result or exception and may call again
Release(p) ==
    /\ pc[p] \in {"returned", "raised", "rejected"}
    /\ pc' = [pc EXCEPT ![p] = "idle"]
    /\ attempt' = [attempt EXCEPT ![p] = 0]
    /\ calls' = [calls EXCEPT ![p] = 0]
    /\ sleeps' = [sleeps EXCEPT ![p] = <<>>]
    /\ outcome' = [outcome EXCEPT ![p] = [kind |-> "none", attempt |-> -1]]
    /\ admitted' = [admitted EXCEPT ![p] = "none"]
    /\ UNCHANGED <<breaker, now, retry>>

Finish(p) == Release(p) /\ UNCHANGED appvars

\* ------------------------------------------------------ gateway functions

\* the response is a 401: raise_for_status raises an httpx.HTTPStatusError,
\* which the retry loop retries like every httpx.HTTPError
Unauthorized(p) ==
    /\ pc[p] = "in_flight"
    /\ OnRetryable(p, [kind |-> "unauthorized", attempt |-> attempt[p]])
    /\ UNCHANGED <<now, retry, attempt, calls, admitted>>
    /\ UNCHANGED appvars

\* the functions of spotify_client.py that call _spotify_api_call
TokenExpiredOps ==
    {"get_available_genre_seeds", "get_user_top_artists", "get_user_top_tracks"}
ListOps == {"spotify_search_artists", "_search_tracks_by_genres"}
NoneOps ==
    {"get_spotify_token", "get_artist", "get_track", "create_spotify_playlist",
     "get_spotify_playlist"}
BoolOps == {"update_spotify_playlist", "delete_spotify_playlist"}
Ops ==
    TokenExpiredOps \cup ListOps \cup NoneOps \cup BoolOps
    \cup {"get_user_playlists", "refresh_spotify_token"}

\* the ones that return at once when they are given no token
TokenGuarded ==
    {"get_available_genre_seeds", "spotify_search_artists",
     "get_user_playlists", "create_spotify_playlist",
     "update_spotify_playlist", "delete_spotify_playlist",
     "get_spotify_playlist"}

\* what each function returns from its except clauses
EmptyOf(o) ==
    IF o \in TokenExpiredOps \cup ListOps THEN "[]"
    ELSE IF o \in NoneOps THEN "None"
    ELSE IF o \in BoolOps THEN "False"
    ELSE "{items: [], total: 0}"

\* what function o gives its caller when _spotify_api_call ended with an
\* outcome of the given kind; body says whether the 2xx response carried
\* any item
Returned(o, kind, body) ==
    IF kind = "result"
    THEN IF o \in BoolOps THEN "True"
         ELSE IF body \/ o \in NoneOps \cup {"refresh_spotify_token"}
         THEN "data" ELSE EmptyOf(o)
    ELSE IF o = "refresh_spotify_token" THEN "raise"
    ELSE IF o \in TokenExpiredOps /\ kind = "unauthorized"
    THEN "raise Spotify user token expired"
    ELSE EmptyOf(o)

\* function o is called: it returns at once without a token, otherwise it
\* awaits _spotify_api_call
GatewayCall(p, o) ==
    /\ op' = [op EXCEPT ![p] = o]
    /\ \E token \in BOOLEAN :
        IF ~token /\ o \in TokenGuarded
        THEN /\ pc[p] = "idle"
             /\ result' = [result EXCEPT ![p] =
                              [value |-> EmptyOf(o), cause |-> "no_token"]]
             /\ UNCHANGED callvars
        ELSE /\ result' = [result EXCEPT ![p] =
                              [value |-> "pending", cause |-> "none"]]
             /\ Admit(p)
    /\ UNCHANGED <<authvars, routevars>>

\* _spotify_api_call has returned or raised: the function returns
GatewayReturn(p) ==
    /\ op[p] # "none"
    /\ \E body \in BOOLEAN :
        result' = [result EXCEPT ![p] =
                      [value |-> Returned(op[p], outcome[p].kind, body),
                       cause |-> outcome[p].kind]]
    /\ Release(p)
    /\ UNCHANGED <<op, authvars, routevars>>

\* ---------------------------------------------------------- crypto, vault

\* None and the empty string: every test of a token in the routes is a
\* truth test, which the two fail alike
NoToken == ""

\* a Fernet token: the key it was made with and the plaintext in it.  The
\* key of the running process is CRYPTO_KEY; a row written under another
\* key (CRYPTO_KEY unset and generated anew at start-up, or rotated) is
\* still in the table
CRYPTO_KEY == "key"
Keys == {CRYPTO_KEY, "old_key"}

\* a NULL column
Null == [key |-> "null", plain |-> NoToken]

encrypt(value) == [key |-> CRYPTO_KEY, plain |-> value]

\* Fernet.decrypt raises InvalidToken unless the token was made with its key
Decrypts(token) == token.key = CRYPTO_KEY
decrypt(token) == token.plain

\* try: decrypt(row.get("access_token", "")) except Exception: None
TryDecrypt(token) == IF Decrypts(token) THEN decrypt(token) ELSE NoToken

\* the rows of user_tokens a request can address: the one of its session
\* and the legacy one of its user
Ids == {"session_id", "user_id"}
NoRow == [access_token |-> Null, refresh_token |-> Null, expires_at |-> NoTime]

AccessToken(id) == IF id = "session_id" THEN "at_session" ELSE "at_user"
RefreshToken(id) == IF id = "session_id" THEN "rt_session" ELSE "rt_user"

\* the rows the callback and earlier versions have left under an id
Rows(id) ==
    { [access_token |-> [key |-> k, plain |-> a], refresh_token |-> r,
       expires_at |-> e] :
        k \in Keys, a \in {AccessToken(id)}, r \in {Null} \cup
            { [key |-> rk, plain |-> rt] : rk \in Keys, rt \in {RefreshToken(id)} }
            \cup {encrypt(NoToken)},
        e \in 0..MaxExpiry }
    \cup { [access_token |-> encrypt(NoToken), refresh_token |-> r,
            expires_at |-> e] :
            r \in {encrypt(RefreshToken(id)), encrypt(NoToken)}, e \in 0..MaxExpiry }

get_session_tokens(v) == v["session_id"]
get_user_tokens(v) == v["user_id"]

\* (variant: the expiry of a row that exists is left as it is)
put_tokens_partial(v, id, access, refresh, expires) ==
    [v EXCEPT ![id] = [access_token |-> access,
                       refresh_token |-> refresh,
                       expires_at |-> IF v[id] = NoRow THEN expires
                                      ELSE v[id].expires_at]]

\* put_session_tokens / put_user_tokens: insert or update the row
put_tokens(v, id, access, refresh, expires) ==
    [v EXCEPT ![id] = [access_token |-> access, refresh_token |-> refresh,
                       expires_at |-> expires]]

\* ------------------------------------------------------------ credentials

\* The Authorization header: no header ("None"), "Bearer <jwt>", the
\* scheme in another case ("bearer <jwt>") or the bare "<jwt>"; whether
\* jwt.decode accepts the token; the claims of its payload.
Schemes == {"Bearer ", "bearer ", ""}
NoCredential ==
    [scheme |-> "None", jwt |-> FALSE, session_id |-> FALSE,
     spotify_access_token |-> NoToken]
Credentials ==
    {NoCredential}
    \cup { [scheme |-> s, jwt |-> FALSE, session_id |-> FALSE,
            spotify_access_token |-> NoToken] : s \in Schemes }
    \cup { [scheme |-> s, jwt |-> TRUE, session_id |-> sid,
            spotify_access_token |-> t] :
            s \in Schemes, sid \in BOOLEAN, t \in {NoToken, "at_jwt"} }

Event(call, arg) == [call |-> call, arg |-> arg]

\* the handler goes on to label l / ends with an HTTP status
Goto(l, tok, rtv, ev, v) ==
    /\ rpc' = l
    /\ spotify_token' = tok
    /\ refresh_token_val' = rtv
    /\ events' = ev
    /\ vault' = v
    /\ status' = 0

Respond(code, tok, ev, v) ==
    /\ rpc' = "done"
    /\ spotify_token' = tok
    /\ refresh_token_val' = NoToken
    /\ events' = ev
    /\ vault' = v
    /\ status' = code

\* ------------------------------------------------------- get_current_user

\* (variant: the row is refreshed whether or not it is still good)
RowStep_always(row, t) ==
    LET tok == TryDecrypt(row.access_token) IN
    IF TRUE
    THEN IF row.refresh_token = Null
         THEN [next |-> "continue", token |-> tok, refresh |-> NoToken]
         ELSE IF ~Decrypts(row.refresh_token)
         THEN [next |-> "raise", token |-> tok, refresh |-> NoToken]
         ELSE IF decrypt(row.refresh_token) # NoToken
         THEN [next |-> "refresh", token |-> tok,
               refresh |-> decrypt(row.refresh_token)]
         ELSE [next |-> "continue", token |-> tok, refresh |-> NoToken]
    ELSE [next |-> "continue", token |-> tok, refresh |-> NoToken]

\* what get_current_user does with a row it found: use its access token,
\* or, when that does not decrypt, is empty or the row has expired, go for
\* a refresh if the row's refresh token decrypts to a non-empty value.
\* decrypt(refresh_enc) is outside any try.
RowStep(row, t) ==
    LET tok == TryDecrypt(row.access_token) IN
    IF tok = NoToken \/ row.expires_at <= t
    THEN IF row.refresh_token = Null
         THEN [next |-> "continue", token |-> tok, refresh |-> NoToken]
         ELSE IF ~Decrypts(row.refresh_token)
         THEN [next |-> "raise", token |-> tok, refresh |-> NoToken]
         ELSE IF decrypt(row.refresh_token) # NoToken
         THEN [next |-> "refresh", token |-> tok,
               refresh |-> decrypt(row.refresh_token)]
         ELSE [next |-> "continue", token |-> tok, refresh |-> NoToken]
    ELSE [next |-> "continue", token |-> tok, refresh |-> NoToken]

\* the final test of spotify_token and the request for the profile
Profile(tok, ev, v) ==
    IF tok = NoToken
    THEN Respond(401, tok, ev, v)
    ELSE Goto("get_user_profile", tok, NoToken,
              Append(ev, Event("get_user_profile", tok)), v)

\* "Fallback to user-scoped legacy tokens"
UserTokens(tok, ev, v) ==
    IF tok # NoToken
    THEN Profile(tok, ev, v)
    ELSE LET ev2 == Append(ev, Event("get_user_tokens", "user_id"))
             row == get_user_tokens(v)
             r == RowStep(row, now)
         IN  IF row = NoRow THEN Profile(NoToken, ev2, v)
             ELSE IF r.next = "raise" THEN Respond(500, r.token, ev2, v)
             ELSE IF r.next = "refresh"
             THEN Goto("refresh_user", r.token, r.refresh,
                       Append(ev2, Event("refresh_spotify_token", r.refresh)), v)
             ELSE Profile(r.token, ev2, v)

\* "Prefer session-scoped tokens"
SessionTokens(tok, ev, v) ==
    IF tok # NoToken \/ ~cred.session_id
    THEN UserTokens(tok, ev, v)
    ELSE LET ev2 == Append(ev, Event("get_session_tokens", "session_id"))
             row == get_session_tokens(v)
             r == RowStep(row, now)
         IN  IF row = NoRow THEN UserTokens(NoToken, ev2, v)
             ELSE IF r.next = "raise" THEN Respond(500, r.token, ev2, v)
             ELSE IF r.next = "refresh"
             THEN Goto("refresh_session", r.token, r.refresh,
                       Append(ev2, Event("refresh_spotify_token", r.refresh)), v)
             ELSE UserTokens(r.token, ev2, v)

\* GET /api/auth/me up to its first await
get_current_user ==
    /\ rpc = "idle"
    /\ handler' = "get_current_user"
    /\ IF cred.scheme = "None"
       THEN Respond(422, NoToken, <<>>, vault)
       ELSE IF cred.scheme = "" \/ ~cred.jwt
       THEN Respond(401, NoToken, <<>>, vault)
       ELSE SessionTokens(cred.spotify_access_token, <<>>, vault)
    /\ UNCHANGED <<cred, callvars, gwvars, routevars>>

Refreshing == {"refresh_session", "refresh_user"}

\* (variant: the new pair is not stored)
RefreshSucceeds_unsaved ==
    /\ rpc \in Refreshing
    /\ \E rt \in {NoToken, "rt_new"} :
        LET session == rpc = "refresh_session"
            id == IF session THEN "session_id" ELSE "user_id"
            v == vault
            ev == events \o <<Event("access_token", "at_new"),
                              Event("refresh_token", rt),
                              Event(IF session THEN "put_session_tokens"
                                               ELSE "put_user_tokens", id)>>
        IN  IF session THEN UserTokens("at_new", ev, v)
                       ELSE Profile("at_new", ev, v)
    /\ UNCHANGED <<cred, handler, callvars, gwvars, routevars>>

\* what get_current_user does with the token_data of a refresh: the new
\* pair is encrypted and stored under the id of the row, with the refresh
\* token it sent when token_data has none, and the function goes on with
\* the new access token
RefreshReturns(access, rt, expires_in) ==
    LET session == rpc = "refresh_session"
        id == IF session THEN "session_id" ELSE "user_id"
        kept == IF rt # NoToken THEN rt ELSE refresh_token_val
        v == put_tokens(vault, id, encrypt(access), encrypt(kept),
                        now + expires_in)
        ev == events \o <<Event("access_token", access),
                          Event("refresh_token", rt),
                          Event(IF session THEN "put_session_tokens"
                                           ELSE "put_user_tokens", id)>>
    IN  IF session THEN UserTokens(access, ev, v)
                   ELSE Profile(access, ev, v)

\* oauth.refresh_spotify_token gets a 200 with an access_token and, maybe,
\* a refresh_token
RefreshSucceeds ==
    /\ rpc \in Refreshing
    /\ \E rt \in {NoToken, "rt_new"} :
          RefreshReturns("at_new", rt, DefaultExpiresIn)
    /\ UNCHANGED <<cred, handler, callvars, gwvars, routevars>>

\* it gets another status: HTTPException(401), which get_current_user
\* re-raises
RefreshRejected ==
    /\ rpc \in Refreshing
    /\ Respond(401, spotify_token, events, vault)
    /\ UNCHANGED <<cred, handler, callvars, gwvars, routevars>>

\* httpx raises (no connection, timeout): "except Exception" answers 500
RefreshUnreachable ==
    /\ rpc \in Refreshing
    /\ Respond(500, spotify_token, events, vault)
    /\ UNCHANGED <<cred, handler, callvars, gwvars, routevars>>

\* oauth.get_user_profile returns, raises HTTPException(401), or httpx raises
ProfileReturns ==
    /\ rpc = "get_user_profile"
    /\ \E code \in {200, 401, 500} : Respond(code, spotify_token, events, vault)
    /\ UNCHANGED <<cred, handler, callvars, gwvars, routevars>>

\* ------------------------------------------------- resolve_user_and_token

\* auth.verify_jwt_token applied to what the two resolvers hand it: the
\* header without its scheme when it starts with "Bearer ", the whole
\* header otherwise.  The function wants "bearer " in front, in any case.
VerifyCut(c) == c.scheme = "bearer " /\ c.jwt

\* the body of the try block of both resolvers, after the verification
ResolveFromVault(c, v) ==
    LET ev1 == IF c.session_id
               THEN <<Event("get_session_tokens", "session_id")>> ELSE <<>>
        t1 == IF c.session_id /\ get_session_tokens(v) # NoRow
              THEN TryDecrypt(get_session_tokens(v).access_token) ELSE NoToken
        ev2 == IF t1 = NoToken
               THEN Append(ev1, Event("get_user_tokens", "user_id")) ELSE ev1
        t2 == IF t1 # NoToken THEN t1
              ELSE IF get_user_tokens(v) # NoRow
              THEN TryDecrypt(get_user_tokens(v).access_token) ELSE NoToken
        t3 == IF t2 # NoToken THEN t2 ELSE c.spotify_access_token
    IN  [raise |-> FALSE, token |-> t3, events |-> ev2]

\* routes/artists.py, require_spotify = True
resolve_artists(c, v) ==
    IF c.scheme = "None" \/ ~VerifyCut(c)
    THEN [raise |-> TRUE, token |-> NoToken, events |-> <<>>]
    ELSE ResolveFromVault(c, v)

\* routes/tracks.py
resolve_tracks(c, v) ==
    IF c.scheme = "None" \/ ~VerifyCut(c)
    THEN [raise |-> FALSE, token |-> NoToken, events |-> <<>>]
    ELSE ResolveFromVault(c, v)

\* How a cache block of the two routes can end: the value is found or
\* not (or written), or aioredis.from_url, redis.get / redis.set or
\* redis.close raises
CacheReads == {"hit", "miss", "connect raised", "get raised", "close raised"}
CacheWrites == {"set", "connect raised", "set raised", "close raised"}

\* GET /api/artists/{artist_id} up to the call of get_artist; connect, get
\* and close are inside the try
get_artist_info ==
    /\ rpc = "idle"
    /\ handler' = "get_artist_info"
    /\ LET r == resolve_artists(cred, vault) IN
        IF r.raise \/ r.token = NoToken
        THEN Respond(401, r.token, r.events, vault)
        ELSE \E cached \in CacheReads :
                LET ev == Append(r.events, Event("redis", cached)) IN
                IF cached = "hit"
                THEN Respond(200, r.token, ev, vault)
                ELSE Goto("get_artist", r.token, NoToken,
                          Append(ev, Event("get_artist", r.token)), vault)
    /\ UNCHANGED <<cred, callvars, gwvars, routevars>>

\* GET /api/tracks/{track_id} up to the call of get_track; redis.close is
\* in the finally clause, outside the try
get_track_info ==
    /\ rpc = "idle"
    /\ handler' = "get_track_info"
    /\ LET r == resolve_tracks(cred, vault) IN
        \E cached \in CacheReads :
            LET ev == Append(r.events, Event("redis", cached)) IN
            IF cached = "close raised"
            THEN Respond(500, r.token, ev, vault)
            ELSE IF cached = "hit"
            THEN Respond(200, r.token, ev, vault)
            ELSE Goto("get_track", r.token, NoToken,
                      Append(ev, Event("get_track", r.token)), vault)
    /\ UNCHANGED <<cred, callvars, gwvars, routevars>>

\* get_artist / get_track gives None and the route answers 404, or its
\* data, which the route writes to the cache and returns
LookupReturns ==
    /\ rpc \in {"get_artist", "get_track"}
    /\ \E data \in BOOLEAN :
        IF ~data THEN Respond(404, spotify_token, events, vault)
        ELSE \E written \in CacheWrites :
                Respond(IF rpc = "get_track" /\ written = "close raised"
                        THEN 500 ELSE 200,
                        spotify_token,
                        Append(events, Event("redis", written)), vault)
    /\ UNCHANGED <<cred, handler, callvars, gwvars, routevars>>

\* ------------------------------------------------------- the token table

\* database.py, UserToken: one table, user_tokens, whose primary key is the
\* column id, "user_id or session_id".  The identifier strings a caller can
\* pass and the ciphertexts it can store:
SubjectIds == {"x", "y"}
Ciphertexts == {"ct1", "ct2"}
Absent == [type |-> "none"]

\* db.query(UserToken).filter(UserToken.id == id).first()
first(t, id) == t[id]

\* db.get_user_tokens / db.get_session_tokens: the dict returned, or None
None == [id |-> "None"]
user_tokens_of(t, id) ==
    IF first(t, id) = Absent THEN None
    ELSE [id |-> id, access_token |-> first(t, id).access_token,
          refresh_token |-> first(t, id).refresh_token,
          expires_at |-> first(t, id).expires_at]
session_tokens_of(t, id) ==
    IF first(t, id) = Absent THEN None
    ELSE [id |-> id, user_id |-> first(t, id).user_id,
          access_token |-> first(t, id).access_token,
          refresh_token |-> first(t, id).refresh_token,
          expires_at |-> first(t, id).expires_at]

\* db.put_user_tokens: the row with this id is updated, whatever its type,
\* or a row of type user_tokens is inserted
put_user_tokens(user_id, access, refresh, expires) ==
    /\ table' = [table EXCEPT ![user_id] =
          IF first(table, user_id) # Absent
          THEN [first(table, user_id) EXCEPT
                   !.access_token = access, !.refresh_token = refresh,
                   !.expires_at = expires]
          ELSE [type |-> "user_tokens", user_id |-> user_id,
                access_token |-> access, refresh_token |-> refresh,
                expires_at |-> expires]]
    /\ UNCHANGED <<callvars, gwvars, authvars, query, route, redis,
                    fetched, reply, storevars>>

\* db.put_session_tokens: the row with this id is updated, whatever its
\* type, or a row of type session_tokens is inserted
put_session_tokens(session_id, user_id, access, refresh, expires) ==
    /\ table' = [table EXCEPT ![session_id] =
          IF first(table, session_id) # Absent
          THEN [first(table, session_id) EXCEPT
                   !.user_id = user_id,
                   !.access_token = access, !.refresh_token = refresh,
                   !.expires_at = expires]
          ELSE [type |-> "session_tokens", user_id |-> user_id,
                access_token |-> access, refresh_token |-> refresh,
                expires_at |-> expires]]
    /\ UNCHANGED <<callvars, gwvars, authvars, query, route, redis,
                    fetched, reply, storevars>>

\* db.delete_session_tokens: the row with this id is deleted, whatever its
\* type
delete_session_tokens(session_id) ==
    /\ table' = [table EXCEPT ![session_id] = Absent]
    /\ UNCHANGED <<callvars, gwvars, authvars, query, route, redis,
                    fetched, reply, storevars>>

\* ------------------------------------------- get_spotify_recommendations

MAX_SEEDS == 5
DEFAULT_GENRES == <<"pop", "rock", "dance", "edm", "indie">>

\* None for min_popularity; a track without the key "popularity"
NoPopularity == -1
\* None and the empty list: every test of a seed list is a truth test
NoSeeds == <<>>

\* s[:n]
Take(s, n) == SubSeq(s, 1, Min(Len(s), n))
\* ",".join(s)
RECURSIVE Join(_)
Join(s) ==
    IF s = <<>> THEN ""
    ELSE IF Len(s) = 1 THEN s[1] ELSE s[1] \o "," \o Join(Tail(s))
\* list(set(...)): the elements of S once each, in the order the hash
\* table happens to give
Orders(S) ==
    { o \in [1..Cardinality(S) -> S] :
        \A i, j \in 1..Cardinality(S) : i # j => o[i] # o[j] }
\* random.shuffle(s)
Shuffles(s) == { [i \in 1..Len(s) |-> s[o[i]]] : o \in Orders(1..Len(s)) }

\* The tracks Spotify knows: one for every popularity, and one that comes
\* without popularity.  Release dates have the precision Spotify gives
\* them: day, month or year.
ReleaseDate(p) ==
    CASE p = NoPopularity -> <<2022, 6, 10>>
      [] p = 0 -> <<2023>>
      [] p = 1 -> <<2023, 1, 15>>
      [] OTHER -> <<2024, 2, 20>>
Track(p) ==
    [id |-> "t" \o ToString(p), popularity |-> p,
     release_date |-> ReleaseDate(p)]
Tracks == { Track(p) : p \in NoPopularity..MaxPopularity }

\* an answer of Spotify to one call: the call raises, or gives items
Raises == [ok |-> FALSE, items |-> <<>>]
Ok(items) == [ok |-> TRUE, items |-> items]
Items(answer) == IF answer.ok THEN answer.items ELSE <<>>

\* search, artist top tracks and top tracks answer with at most one track
Answers == {Raises, Ok(<<>>)} \cup { Ok(<<t>>) : t \in Tracks }
\* /me/top/artists: HTTP 401, or the artists with their genre tags (any
\* other failure is answered as no artist, spotify_client.py:129-133)
TopArtists ==
    {Raises, Ok(<<>>), Ok(<<[id |-> "a1", genres |-> <<>>]>>),
     Ok(<<[id |-> "a1", genres |-> <<"jazz">>],
          [id |-> "a2", genres |-> <<"folk", "jazz">>]>>)}
\* /tracks/{id}: the artists of the track
Lookups == {Raises, Ok(<<>>), Ok(<<"a1">>), Ok(<<"a1", "a2", "a3">>)}

\* what Spotify answers during one request: to the top-artists call, to
\* every track lookup, and to the k-th of the other calls
Worlds ==
    [top_artists : TopArtists, lookup : Lookups, answers : [1..3 -> Answers]]
Answer(w, k) == w.answers[((k - 1) % Len(w.answers)) + 1]
\* a call with its argument, and what it was answered
Asked(call, arg, answer) == [call |-> call, arg |-> arg, answer |-> answer]

\* for artist in top_artists: user_genres.extend(artist.get("genres", []))
RECURSIVE user_genres(_)
user_genres(artists) ==
    IF artists = <<>> THEN <<>>
    ELSE Head(artists).genres \o user_genres(Tail(artists))

\* the loop of _search_tracks_by_genres and _get_tracks_from_artists: one
\* call per seed, a call that raises is skipped; k calls were made before
RECURSIVE Gather(_, _, _, _)
Gather(call, seeds, w, k) ==
    IF seeds = <<>> THEN [tracks |-> <<>>, calls |-> <<>>]
    ELSE LET rest == Gather(call, Tail(seeds), w, k + 1)
         IN  [tracks |-> Items(Answer(w, k + 1)) \o rest.tracks,
              calls |-> <<Asked(call, Head(seeds), Answer(w, k + 1))>>
                        \o rest.calls]

_search_tracks_by_genres(genres, limit, w) ==
    LET g == Gather("search", Take(genres, 3), w, 0)
    IN  [tracks |-> Take(g.tracks, limit * 2), calls |-> g.calls]

_get_tracks_from_artists(artist_ids, w) ==
    Gather("artist_top_tracks", Take(artist_ids, 5), w, 0)

\* the ids of the first two artists of every seed track that is found, as
\* a set; their top tracks, the artists taken in the order of list(set)
_get_related_tracks(track_ids, w) ==
    LET seeds == Take(track_ids, 5)
        lookups == [i \in 1..Len(seeds) |-> Asked("track", seeds[i], w.lookup)]
        found == Take(Items(w.lookup), 2)
        artist_ids == IF seeds = <<>> THEN {}
                      ELSE { found[i] : i \in 1..Len(found) }
    IN  { [tracks |-> _get_tracks_from_artists(o, w).tracks,
           calls |-> lookups \o _get_tracks_from_artists(o, w).calls] :
            o \in Orders(artist_ids) }

\* seeds_used as the except branch rebuilds it
seeds_given(a) ==
    (IF a.seed_artists # NoSeeds
     THEN {<<"seed_artists", Join(a.seed_artists)>>} ELSE {})
    \cup (IF a.seed_tracks # NoSeeds
          THEN {<<"seed_tracks", Join(a.seed_tracks)>>} ELSE {})
    \cup (IF a.genres # NoSeeds
          THEN {<<"seed_genres", Join(a.genres)>>} ELSE {})

Collected(raised, tracks, seeds_used, made) ==
    [raised |-> raised, tracks |-> tracks, seeds_used |-> seeds_used,
     calls |-> made]

\* (variant: the artist seeds are looked at before the genres)
Branch_artists_first(a) ==
    IF a.seed_artists # NoSeeds THEN "seed_artists"
    ELSE IF a.genres # NoSeeds THEN "genres"
    ELSE IF a.seed_tracks # NoSeeds THEN "seed_tracks"
    ELSE "top_artists"

\* the if / elif chain of the try block: the branch taken
Branch(a) ==
    IF a.genres # NoSeeds THEN "genres"
    ELSE IF a.seed_artists # NoSeeds THEN "seed_artists"
    ELSE IF a.seed_tracks # NoSeeds THEN "seed_tracks"
    ELSE "top_artists"

\* the try block: the ways it can end
Collect(a, w) ==
    IF Branch(a) = "genres"
    THEN LET r == _search_tracks_by_genres(a.genres, a.limit, w)
         IN  {Collected(FALSE, r.tracks,
                        {<<"seed_genres", Join(a.genres)>>}, r.calls)}
    ELSE IF Branch(a) = "seed_artists"
    THEN LET r == _get_tracks_from_artists(a.seed_artists, w)
         IN  {Collected(FALSE, r.tracks,
                        {<<"seed_artists", Join(a.seed_artists)>>}, r.calls)}
    ELSE IF Branch(a) = "seed_tracks"
    THEN { Collected(FALSE, r.tracks,
                     {<<"seed_tracks", Join(a.seed_tracks)>>}, r.calls) :
            r \in _get_related_tracks(a.seed_tracks, w) }
    ELSE LET top == <<Asked("top_artists", a.time_range, w.top_artists)>>
             tags == user_genres(Items(w.top_artists))
             tagset == { tags[i] : i \in 1..Len(tags) }
         IN  IF ~w.top_artists.ok
             THEN {Collected(TRUE, <<>>, seeds_given(a), top)}
             ELSE IF tagset # {}
             THEN { LET unique_genres == Take(o, MAX_SEEDS)
                        r == _search_tracks_by_genres(unique_genres, a.limit, w)
                    IN  Collected(FALSE, r.tracks,
                                  {<<"seed_genres", Join(unique_genres)>>},
                                  top \o r.calls) :
                      o \in Orders(tagset) }
             ELSE LET both == Append(top, Asked("top_tracks", a.time_range,
                                               Answer(w, 1)))
                  IN  IF ~Answer(w, 1).ok
                      THEN {Collected(TRUE, <<>>, seeds_given(a), both)}
                      ELSE {Collected(FALSE, Answer(w, 1).items,
                                      {<<"source", "user_top_tracks">>}, both)}

\* (variant: a track at the threshold is dropped as well)
Dropped_at_threshold(t, min_popularity) ==
    /\ min_popularity # NoPopularity
    /\ (IF t.popularity = NoPopularity THEN 0 ELSE t.popularity) <= min_popularity

\* track.get("popularity", 0) < min_popularity: the track is dropped
Dropped(t, min_popularity) ==
    /\ min_popularity # NoPopularity
    /\ (IF t.popularity = NoPopularity THEN 0 ELSE t.popularity) < min_popularity

\* the dict appended for a track that is kept
Entry(t) ==
    [trackId |-> t.id, popularity |-> t.popularity,
     release_date |-> t.release_date]

\* the loop that filters by popularity
RECURSIVE Filtered(_, _)
Filtered(tracks, min_popularity) ==
    IF tracks = <<>> THEN <<>>
    ELSE IF Dropped(Head(tracks), min_popularity)
    THEN Filtered(Tail(tracks), min_popularity)
    ELSE <<Entry(Head(tracks))>> \o Filtered(Tail(tracks), min_popularity)

NoMeta == [market |-> "", fallback |-> "", seedsUsed |-> {}]

\* get_spotify_recommendations(..., return_meta=True): every (filtered,
\* meta) it can return when Spotify answers as w, with the calls it made
\* and the tracks it kept after the truncation
get_spotify_recommendations(a, w) ==
    IF a.spotify_token = NoToken
    THEN {[tracks |-> <<>>, meta |-> NoMeta, calls |-> <<>>, kept |-> <<>>]}
    ELSE UNION {
        { LET kept == IF c.raised THEN <<>> ELSE Take(s, a.limit)
          IN  [tracks |-> Filtered(kept, a.min_popularity),
               meta |-> [market |-> a.market_override,
                         fallback |-> IF c.raised THEN "fallback_used"
                                      ELSE "custom_algorithm",
                         seedsUsed |-> c.seeds_used],
               calls |-> c.calls, kept |-> kept] :
            s \in Shuffles(c.tracks) } :
        c \in Collect(a, w) }

\* ------------------------------------------- the recommendation routes

CACHE_TTL == 300

\* no request has been received / no response has been given yet
NoQuery == [route |-> "none"]
NoReply == [status |-> 0]

\* f"{min_popularity}"
Str(n) == IF n = NoPopularity THEN "None" ELSE ToString(n)

build_cache_key(user_id, seed_type, seeds, market, min_popularity) ==
    "recommendations:" \o user_id \o ":" \o seed_type \o ":" \o Join(seeds)
        \o ":" \o market \o ":" \o Str(min_popularity)

\* authenticate_user: the header must start with "Bearer "; the token
\* after it is the Spotify token of user "u1"
Authenticated(q) == q.authorization = "Bearer at"

\* released_after: none, or the fields datetime.strptime finds in it; the
\* format "%Y-%m-%d" wants the three of them
NoDate == <<>>
ValidDate(d) == Len(d) = 3

\* Counter(s).most_common(n): by falling count, equal counts in the order
\* of first occurrence
most_common(s, n) ==
    LET Count(x) == Cardinality({ i \in 1..Len(s) : s[i] = x })
        FirstAt(x) == CHOOSE i \in 1..Len(s) :
                          s[i] = x /\ \A j \in 1..(i - 1) : s[j] # x
        Before(x, y) == \/ Count(x) > Count(y)
                        \/ Count(x) = Count(y) /\ FirstAt(x) < FirstAt(y)
        o == CHOOSE c \in Orders({ s[i] : i \in 1..Len(s) }) :
                \A i, j \in 1..Len(c) : i < j => Before(c[i], c[j])
    IN  Take(o, n)

\* the keyword arguments fetch_recommendations passes on
Passed(q, genres, seed_artists, seed_tracks) ==
    [spotify_token |-> "at", limit |-> q.limit, genres |-> genres,
     seed_artists |-> seed_artists, seed_tracks |-> seed_tracks,
     min_popularity |-> q.min_popularity, market_override |-> q.market,
     time_range |-> q.time_range]

\* the handler raises HTTPException(code), or an exception escapes it
\* and the framework answers 500
Fails(code, made) ==
    /\ reply' = [status |-> code]
    /\ route' = [step |-> "done", cache_key |-> "", cache |-> "none",
                 seeds |-> NoSeeds]
    /\ fetched' = made
    /\ UNCHANGED redis

\* (variant: a stored response without results counts as a miss)
Cached_nonempty(key, seeds, args, made) ==
    /\ fetched' = made
    /\ UNCHANGED redis
    /\ \E raised \in BOOLEAN :
        IF ~raised /\ key \in DOMAIN redis /\ redis[key].value.results # <<>>
        THEN /\ reply' = redis[key].value
             /\ route' = [step |-> "done", cache_key |-> key, cache |-> "hit",
                          seeds |-> seeds]
        ELSE /\ reply' = NoReply
             /\ route' = [step |-> "fetch", cache_key |-> key,
                          cache |-> IF raised THEN "raised" ELSE "miss",
                          seeds |-> seeds, args |-> args]

\* cached = await redis_cache_get(cache_key); if cached: return cached.
\* redis_cache_get returns None when the backend raises.  seeds: the seed
\* list the key was built from
Cached(key, seeds, args, made) ==
    /\ fetched' = made
    /\ UNCHANGED redis
    /\ \E raised \in BOOLEAN :
        IF ~raised /\ key \in DOMAIN redis
        THEN /\ reply' = redis[key].value
             /\ route' = [step |-> "done", cache_key |-> key, cache |-> "hit",
                          seeds |-> seeds]
        ELSE /\ reply' = NoReply
             /\ route' = [step |-> "fetch", cache_key |-> key,
                          cache |-> IF raised THEN "raised" ELSE "miss",
                          seeds |-> seeds, args |-> args]

\* the requests the four routes are sent
Common ==
    [authorization : {"Bearer at"}, market : {"GB"},
     min_popularity : {NoPopularity}, limit : {1, MaxLimit},
     time_range : {"medium_term"}]
Extend(q, r) == [f \in DOMAIN q \cup DOMAIN r |->
                    IF f \in DOMAIN r THEN r[f] ELSE q[f]]
Queries(name) ==
    { Extend(q, r) : q \in Common,
        r \in  CASE name = "recommendations_base" ->
                    [route : {name}, released_after :
                        {NoDate, <<2023, 1, 1>>, <<2023>>}]
                 [] name = "recommendations_genres" ->
                    [route : {name},
                     seeds : {NoSeeds, <<"pop", "rock">>, <<"rock", "pop">>},
                     time_range : {"short_term", "medium_term"}]
                 [] name = "recommendations_artists" ->
                    [route : {name},
                     seeds : {NoSeeds, <<"a1", "a2">>,
                              <<"a1", "a2", "a3", "a4", "a5">>}]
                 [] OTHER ->
                    [route : {name}, seeds : {NoSeeds, <<"s1">>}] }
    \cup { Extend(q, [route |-> name, authorization |-> "at",
                      seeds |-> NoSeeds, released_after |-> NoDate]) :
            q \in { c \in Common : c.limit = 1 } }

\* what Spotify answers to the calls of a request that came through a
\* route: the same to every search, artist-top-tracks and top-tracks call
RouteAnswers == {Raises, Ok(<<Track(NoPopularity)>>)}
RouteTopArtists == { ta \in TopArtists : Len(Items(ta)) # 1 }
RouteWorlds ==
    { w \in Worlds :
        /\ w.top_artists \in RouteTopArtists
        /\ w.lookup = Ok(<<"a1">>)
        /\ w.answers[1] \in RouteAnswers
        /\ \A k \in 1..Len(w.answers) : w.answers[k] = w.answers[1] }

\* a request arrives when none is being handled; the cache holds the
\* responses of at most MaxCached earlier ones
Arrives == route.step \in {"idle", "done"} /\ Cardinality(DOMAIN redis) <= MaxCached

\* genre_seeds of the artists and tracks routes: the caller's genres in
\* the order of list(set), or the default genres, as many as there is room
Complement(q, seeds, ta, made, seed_type, artists, tracks) ==
    LET total_seeds == Len(seeds)
        asked == Append(made, Asked("top_artists", q.time_range, ta))
        tags == user_genres(Items(ta))
        room == MAX_SEEDS - total_seeds
    IN  IF total_seeds >= MAX_SEEDS
        THEN Cached(build_cache_key("u1", seed_type, seeds, q.market,
                                    q.min_popularity),
                    seeds, Passed(q, NoSeeds, artists, tracks), made)
        ELSE IF ~ta.ok THEN Fails(500, asked)
        ELSE \E o \in Orders({ tags[i] : i \in 1..Len(tags) }) :
                LET unique_genres == Take(o, room)
                    genre_seeds == IF unique_genres # <<>> THEN unique_genres
                                   ELSE Take(DEFAULT_GENRES, room)
                IN  Cached(build_cache_key("u1", seed_type,
                                           seeds \o genre_seeds, q.market,
                                           q.min_popularity),
                           seeds \o genre_seeds,
                           Passed(q, genre_seeds, artists, tracks), asked)

\* GET /recommendations up to the call of fetch_recommendations
recommendations_base ==
    /\ Arrives
    /\ \E q \in Queries("recommendations_base"), ta \in RouteTopArtists :
        /\ query' = q
        /\ IF ~Authenticated(q) THEN Fails(401, <<>>)
           ELSE LET asked == <<Asked("top_artists", q.time_range, ta)>>
                    tags == user_genres(Items(ta))
                    seeds == IF tags # <<>> THEN most_common(tags, MAX_SEEDS)
                             ELSE Take(DEFAULT_GENRES, MAX_SEEDS)
                IN  IF q.released_after # NoDate /\ ~ValidDate(q.released_after)
                    THEN Fails(422, asked)
                    ELSE Cached(build_cache_key("u1", "genre", seeds, q.market,
                                                q.min_popularity),
                                seeds, Passed(q, seeds, NoSeeds, NoSeeds), asked)
    /\ UNCHANGED <<callvars, gwvars, authvars, table, storevars>>

\* GET /recommendations/genres up to the call of fetch_recommendations
recommendations_genres ==
    /\ Arrives
    /\ \E q \in Queries("recommendations_genres") :
        /\ query' = q
        /\ IF ~Authenticated(q) THEN Fails(401, <<>>)
           ELSE LET genre_seeds == IF q.seeds # NoSeeds THEN q.seeds
                                   ELSE <<"user_top">>
                IN  Cached(build_cache_key("u1", "genre", genre_seeds,
                                           q.market, q.min_popularity),
                           genre_seeds,
                           Passed(q, q.seeds, NoSeeds, NoSeeds), <<>>)
    /\ UNCHANGED <<callvars, gwvars, authvars, table, storevars>>

\* GET /recommendations/artists up to the call of fetch_recommendations
recommendations_artists ==
    /\ Arrives
    /\ \E q \in Queries("recommendations_artists"), ta \in RouteTopArtists :
        /\ query' = q
        /\ IF ~Authenticated(q) THEN Fails(401, <<>>)
           ELSE IF q.seeds # NoSeeds
           THEN Complement(q, q.seeds, ta, <<>>, "artist", q.seeds, NoSeeds)
           ELSE LET asked == <<Asked("top_artists", q.time_range, ta)>>
                    artist_seeds == [i \in 1..Len(Items(ta)) |-> Items(ta)[i].id]
                IN  IF ~ta.ok THEN Fails(500, asked)
                    ELSE Complement(q, artist_seeds, ta, asked, "artist",
                                    artist_seeds, NoSeeds)
    /\ UNCHANGED <<callvars, gwvars, authvars, table, storevars>>

\* GET /recommendations/tracks up to the call of fetch_recommendations
recommendations_tracks ==
    /\ Arrives
    /\ \E q \in Queries("recommendations_tracks"), ta \in RouteTopArtists :
      \E tt \in IF q.seeds # NoSeeds THEN {Raises} ELSE RouteAnswers :
        /\ query' = q
        /\ IF ~Authenticated(q) THEN Fails(401, <<>>)
           ELSE IF q.seeds # NoSeeds
           THEN Complement(q, q.seeds, ta, <<>>, "track", NoSeeds, q.seeds)
           ELSE LET asked == <<Asked("top_tracks", q.time_range, tt)>>
                    track_seeds == [i \in 1..Len(Items(tt)) |-> Items(tt)[i].id]
                IN  IF ~tt.ok THEN Fails(500, asked)
                    ELSE Complement(q, track_seeds, ta, asked, "track",
                                    NoSeeds, track_seeds)
    /\ UNCHANGED <<callvars, gwvars, authvars, table, storevars>>

\* fetch_recommendations returns; the response is built, handed to
\* redis_cache_set, which does nothing when the backend raises, and
\* returned.  by, seeds: the request whose response the entry is, and the
\* seed list its key was built from
fetch_recommendations ==
    /\ route.step = "fetch"
    /\ \E w \in RouteWorlds : \E r \in get_spotify_recommendations(route.args, w) :
        \E raised \in BOOLEAN :
            LET response == [status |-> 200, results |-> r.tracks,
                             meta |-> r.meta]
            IN  /\ reply' = response
                /\ fetched' = fetched \o r.calls
                /\ redis' = IF raised THEN redis
                            ELSE (route.cache_key :>
                                    [value |-> response, by |-> query,
                                     seeds |-> route.seeds]) @@ redis
                /\ route' = [step |-> "done", cache_key |-> route.cache_key,
                             cache |-> route.cache, seeds |-> route.seeds,
                             kept |-> r.kept,
                             written |-> IF raised THEN "raised" ELSE "set"]
    /\ UNCHANGED <<callvars, gwvars, authvars, table, query, storevars>>

\* ex=CACHE_TTL: an entry is gone once its time is up
Expire ==
    /\ \E k \in DOMAIN redis :
          redis' = [j \in DOMAIN redis \ {k} |-> redis[j]]
    /\ UNCHANGED <<callvars, gwvars, authvars, table, query, route, fetched,
                   reply, storevars>>

\* a direct call of get_spotify_recommendations returns
Recommend ==
    /\ route.step = "called"
    /\ \E w \in Worlds : \E r \in get_spotify_recommendations(query, w) :
        /\ fetched' = r.calls
        /\ reply' = [status |-> 200, results |-> r.tracks, meta |-> r.meta]
        /\ route' = [step |-> "returned", kept |-> r.kept]
    /\ UNCHANGED <<callvars, gwvars, authvars, table, query, redis, storevars>>

\* the playlists, the state tokens of the OAuth flow
PlaylistIds == {"pl1", "pl2"}
NoPlaylist == [userId |-> "none"]
States == {"st1", "st2"}
NoState == [user_id |-> "none"]
NoFrame == [rpc |-> "none"]

\* no row has been written, nothing is cached
InitStores ==
    /\ table = [id \in SubjectIds |-> Absent]
    /\ redis = <<>>
    /\ fetched = <<>>
    /\ reply = NoReply
    /\ playlists = [id \in PlaylistIds |-> NoPlaylist]
    /\ spotify_playlists = [id \in PlaylistIds |-> NoPlaylist]
    /\ oauth_states = [s \in States |-> NoState]
    /\ _auth_states_fallback = [s \in States |-> NoState]

\* and no recommendation has been requested
InitRoutes ==
    /\ InitStores
    /\ suspended = NoFrame
    /\ query = NoQuery
    /\ route = [step |-> "idle"]

\* no request is being handled
InitRequest ==
    /\ InitRoutes
    /\ vault = [id \in Ids |-> NoRow]
    /\ cred = NoCredential
    /\ handler = "none"
    /\ rpc = "idle"
    /\ spotify_token = NoToken
    /\ refresh_token_val = NoToken
    /\ events = <<>>
    /\ status = 0

InitGateway ==
    /\ op = [p \in Callers |-> "none"]
    /\ result = [p \in Callers |-> [value |-> "none", cause |-> "none"]]

\* --------------------------------------------------------- specifications

InitCallers ==
    /\ pc = [p \in Callers |-> "idle"]
    /\ attempt = [p \in Callers |-> 0]
    /\ calls = [p \in Callers |-> 0]
    /\ sleeps = [p \in Callers |-> <<>>]
    /\ outcome = [p \in Callers |-> [kind |-> "none", attempt |-> -1]]
    /\ admitted = [p \in Callers |-> "none"]

\* the arguments with which retry_with_exponential_backoff calls func once
NoRetry ==
    [max_retries |-> 0, initial_delay |-> SpotifyInitialDelay,
     max_delay |-> DefaultMaxDelay,
     exponential_base |-> DefaultExponentialBase, jitter |-> FALSE]

\* any breaker, its methods called directly and through call_with_breaker
\* by concurrent callers whose wrapped function is tried once
Init ==
    /\ \E th \in {1, MaxThreshold}, rt \in {0, MaxTimeout} :
          breaker = NewBreaker(th, rt)
    /\ now = 0
    /\ retry = NoRetry
    /\ InitCallers
    /\ InitGateway
    /\ InitRequest

Next ==
    \/ Tick
    \/ IsOpen
    \/ RecordSuccess
    \/ RecordFailure
    \/ \E p \in Callers :
        \/ call_with_breaker(p)
        \/ Succeed(p)
        \/ FailRetryable(p)
        \/ Finish(p)

Spec == Init /\ [][Next]_vars

\* retry_with_exponential_backoff for every combination of its keyword
\* arguments, run by one caller
InitRetry ==
    /\ breaker = NewBreaker(SpotifyFailureThreshold, SpotifyRecoveryTimeout)
    /\ now = 0
    /\ \E n \in 0..MaxRetriesArg, i \in 0..MaxInitialDelay, m \in 0..MaxMaxDelay,
          b \in 1..MaxBase, j \in BOOLEAN :
          retry = [max_retries |-> n, initial_delay |-> i, max_delay |-> m,
                   exponential_base |-> b, jitter |-> j]
    /\ InitCallers
    /\ InitGateway
    /\ InitRequest

NextRetry ==
    \/ call_with_breaker(1)
    \/ Succeed(1)
    \/ FailRetryable(1)
    \/ FailOther(1)
    \/ Wake(1)
    \/ Finish(1)

SpecRetry == InitRetry /\ [][NextRetry]_vars

\* _spotify_api_call: spotify_circuit_breaker around the retry loop around
\* _make_request, with the arguments the function passes
InitApi ==
    /\ breaker = NewBreaker(SpotifyFailureThreshold, SpotifyRecoveryTimeout)
    /\ now = 0
    /\ retry = [max_retries |-> SpotifyMaxRetries, initial_delay |-> SpotifyInitialDelay,
                max_delay |-> DefaultMaxDelay,
                exponential_base |-> DefaultExponentialBase, jitter |-> TRUE]
    /\ InitCallers
    /\ InitGateway
    /\ InitRequest

_spotify_api_call(p) ==
    \/ call_with_breaker(p)
    \/ Succeed(p)
    \/ FailRetryable(p)
    \/ FailOther(p)
    \/ RateLimited(p)
    \/ RateLimitRaise(p)
    \/ Wake(p)
    \/ Finish(p)

NextApi ==
    \/ Tick
    \/ _spotify_api_call(1)

SpecApi == InitApi /\ [][NextApi]_vars

\* one request with any credential against any content of the two rows,
\* handled by one of the three routes that resolve a Spotify token
InitAuth ==
    /\ breaker = NewBreaker(SpotifyFailureThreshold, SpotifyRecoveryTimeout)
    /\ now = 1
    /\ retry = NoRetry
    /\ InitCallers
    /\ InitGateway
    /\ vault \in [Ids -> UNION {Rows(id) : id \in Ids} \cup {NoRow}]
    /\ \A id \in Ids : vault[id] \in Rows(id) \cup {NoRow}
    /\ cred \in Credentials
    /\ handler = "none"
    /\ rpc = "idle"
    /\ spotify_token = NoToken
    /\ refresh_token_val = NoToken
    /\ events = <<>>
    /\ status = 0
    /\ InitRoutes

NextAuth ==
    \/ get_current_user
    \/ RefreshSucceeds
    \/ RefreshRejected
    \/ RefreshUnreachable
    \/ ProfileReturns
    \/ get_artist_info
    \/ get_track_info
    \/ LookupReturns

SpecAuth == InitAuth /\ [][NextAuth]_vars

\* the functions of spotify_client.py called one after the other, each
\* running _spotify_api_call as configured
InitGw ==
    /\ breaker = NewBreaker(SpotifyFailureThreshold, SpotifyRecoveryTimeout)
    /\ now = 0
    /\ retry = [max_retries |-> SpotifyMaxRetries, initial_delay |-> SpotifyInitialDelay,
                max_delay |-> DefaultMaxDelay,
                exponential_base |-> DefaultExponentialBase, jitter |-> TRUE]
    /\ InitCallers
    /\ InitGateway
    /\ InitRequest

NextGw ==
    \/ \E o \in Ops : GatewayCall(1, o)
    \/ Succeed(1)
    \/ FailRetryable(1)
    \/ Unauthorized(1)
    \/ FailOther(1)
    \/ Wake(1)
    \/ GatewayReturn(1)

SpecGw == InitGw /\ [][NextGw]_vars

\* ------------------------------------------------------------- properties

InCall == {"in_flight", "rate_wait", "backoff"}

\* the time since the last recorded failure
Elapsed == now - breaker.last_failure_time

\* failure_threshold failures have been recorded since the counter was last
\* zero, and no more than recovery_timeout has passed since the last one
Tripped ==
    /\ breaker.failure_count >= breaker.failure_threshold
    /\ breaker.last_failure_time # NoTime
    /\ Elapsed <= breaker.recovery_timeout

\* C1: once failure_threshold failures have been recorded, and while no more
\* than recovery_timeout has elapsed since the last of them, the breaker is
\* open, is_open() returns true, and a call_with_breaker made then raises the
\* breaker-open error without invoking the wrapped function.
C1_OpenAfterThreshold ==
    [][ Tripped =>
          /\ breaker.state = "open"
          /\ is_open(breaker, now).ret
          /\ \A p \in Callers :
                (pc[p] = "idle" /\ pc'[p] # "idle") =>
                    /\ pc'[p] = "rejected"
                    /\ outcome'[p].kind = "breaker_open"
                    /\ calls'[p] = 0 ]_vars

C1_Witness ==
    \E p \in Callers :
        /\ pc[p] = "rejected"
        /\ calls[p] = 0
        /\ breaker.failure_count = breaker.failure_threshold
        /\ breaker.state = "open"

\* C2: on an open breaker the is_open() test of the next call moves the
\* breaker to half-open and lets the call proceed whenever more than
\* recovery_timeout has elapsed since last_failure_time, however long that
\* is; otherwise the breaker stays open and the call is rejected.
C2_RecoveryByElapsedTime ==
    [][ \A p \in Callers :
          (breaker.state = "open" /\ pc[p] = "idle" /\ pc'[p] # "idle") =>
              IF Elapsed > breaker.recovery_timeout
              THEN breaker'.state = "half-open" /\ pc'[p] = "in_flight"
              ELSE breaker'.state = "open" /\ pc'[p] = "rejected" ]_vars

C4_SingleTrial ==
    Cardinality({p \in Callers : pc[p] \in InCall /\ admitted[p] = "half-open"}) <= 1

\* the sleeps of the retry loop itself, in order
BackoffSleeps(p) == SelectSeq(sleeps[p], LAMBDA s : s.kind = "backoff")

RECURSIVE SumLen(_)
SumLen(ss) == IF ss = <<>> THEN 0 ELSE Head(ss).len + SumLen(Tail(ss))

\* everything slept between the response to attempt a and the next attempt
WaitAfter(p, a) == SumLen(SelectSeq(sleeps[p], LAMBDA s : s.attempt = a))

\* C5: a step of _spotify_api_call that stays inside the retry sequence (a
\* failed attempt that is retried, a sleep ending) leaves the breaker alone;
\* the step in which the exhausted sequence raises adds exactly 1 to
\* failure_count; a call that returns a result records no failure.
C5_OneFailurePerSequence ==
    [][ \A p \in Callers :
          (pc[p] \in InCall /\ pc'[p] # pc[p]) =>
              /\ pc'[p] \in InCall => breaker' = breaker
              /\ pc'[p] = "raised" =>
                    breaker'.failure_count = breaker.failure_count + 1
              /\ pc'[p] = "returned" =>
                    /\ breaker'.failure_count \in {breaker.failure_count, 0}
                    /\ breaker'.last_failure_time = breaker.last_failure_time
       ]_vars

C5_Witness ==
    /\ pc[1] = "raised"
    /\ outcome[1].kind \in {"retryable", "rate_limit"}
    /\ calls[1] = SpotifyMaxRetries + 1
    /\ breaker.failure_count = 1

\* C6: the wrapped function is invoked at most max_retries + 1 times; the
\* first successful attempt ends the call with that attempt's result and
\* nothing is invoked afterwards; an exception matching retryable_exceptions
\* is raised to the caller only by attempt number max_retries + 1, whose
\* failure ends the call with that very exception and without a sleep.
C6_BoundedAttempts ==
    [][ \A p \in Callers :
          /\ calls'[p] <= retry.max_retries + 1
          /\ (pc[p] \in InCall /\ pc'[p] = "returned") =>
                /\ calls'[p] = calls[p]
                /\ outcome'[p] = [kind |-> "result", attempt |-> calls[p] - 1]
          /\ pc[p] \in {"returned", "raised"} => calls'[p] \in {calls[p], 0}
          /\ (pc[p] \in InCall /\ pc'[p] = "raised" /\ outcome'[p].kind # "other") =>
                /\ calls[p] = retry.max_retries + 1
                /\ outcome'[p].attempt = retry.max_retries
          /\ (pc[p] = "in_flight" /\ calls[p] = retry.max_retries + 1
                /\ pc'[p] # pc[p]) =>
                /\ pc'[p] \in {"returned", "raised"}
                /\ sleeps'[p] = sleeps[p]
       ]_vars

C6_Witness ==
    /\ pc[1] = "raised"
    /\ outcome[1] = [kind |-> "retryable", attempt |-> retry.max_retries]
    /\ retry.max_retries >= 2
    /\ calls[1] = retry.max_retries + 1

\* C7: with jitter disabled the k-th sleep follows the k-th failed attempt
\* and lasts min(initial_delay * exponential_base^(k-1), max_delay); there
\* are never more than max_retries sleeps, so none follows the last attempt.
C7_ExactDelays ==
    ~retry.jitter =>
        \A p \in Callers :
            /\ Len(sleeps[p]) <= retry.max_retries
            /\ Len(sleeps[p]) = IF pc[p] = "in_flight" THEN calls[p] - 1
                                ELSE IF pc[p] = "backoff" THEN calls[p]
                                ELSE Len(sleeps[p])
            /\ \A k \in 1..Len(sleeps[p]) :
                  /\ sleeps[p][k].kind = "backoff"
                  /\ sleeps[p][k].attempt = k - 1
                  /\ sleeps[p][k].len =
                        Min(retry.initial_delay * Pow(retry.exponential_base, k - 1),
                            retry.max_delay) * Scale

C7_Witness ==
    /\ ~retry.jitter
    /\ pc[1] = "raised"
    /\ outcome[1].kind = "retryable"
    /\ Len(sleeps[1]) = 3
    /\ sleeps[1][2].len < sleeps[1][3].len
    /\ sleeps[1][3].len = retry.max_delay * Scale

NonDecreasing(ss) == \A k \in 1..(Len(ss) - 1) : ss[k].len <= ss[k + 1].len

\* C8 as stated: in every configuration the delays of one retry sequence
\* are non-decreasing and each is at most max_delay.
C8_NonDecreasingBounded ==
    \A p \in Callers :
        /\ NonDecreasing(BackoffSleeps(p))
        /\ \A k \in 1..Len(BackoffSleeps(p)) :
              BackoffSleeps(p)[k].len <= retry.max_delay * Scale

\* C8, amended: in every configuration each delay is at most max_delay; a
\* delay is not smaller than the one before it when jitter is disabled, and
\* also with jitter when exponential_base >= 2 and the later delay is not
\* cut down to max_delay.
C8_BoundedAndConditionallyNonDecreasing ==
    \A p \in Callers :
        LET ss == BackoffSleeps(p) IN
        /\ \A k \in 1..Len(ss) : ss[k].len <= retry.max_delay * Scale
        /\ \A k \in 1..(Len(ss) - 1) :
              ( \/ ~retry.jitter
                \/ /\ retry.exponential_base >= 2
                   /\ retry.initial_delay * Pow(retry.exponential_base, ss[k + 1].attempt)
                        <= retry.max_delay )
              => ss[k].len <= ss[k + 1].len

C8_Witness ==
    /\ retry.jitter
    /\ Len(sleeps[1]) >= 2
    /\ sleeps[1][1].len > sleeps[1][2].len
    /\ sleeps[1][2].len > 0

\* C9: an exception that does not match retryable_exceptions is never
\* followed by a sleep; it ends the call at once with that exception, the
\* invocation that raised it being the last one.
C9_OtherExceptionsPropagate ==
    [][ \A p \in Callers :
          /\ \A k \in 1..Len(sleeps'[p]) : sleeps'[p][k].exc # "other"
          /\ (pc[p] = "in_flight" /\ pc'[p] = "raised" /\ outcome'[p].kind = "other") =>
                /\ calls'[p] = calls[p]
                /\ sleeps'[p] = sleeps[p]
                /\ outcome'[p].attempt = calls[p] - 1
          /\ pc[p] = "raised" => calls'[p] \in {calls[p], 0}
       ]_vars

C9_Witness ==
    /\ pc[1] = "raised"
    /\ outcome[1] = [kind |-> "other", attempt |-> 1]
    /\ calls[1] = 2
    /\ retry.max_retries >= 2
    /\ Len(sleeps[1]) = 1

\* C10: when an attempt was answered 429 with Retry-After r, the wait between
\* that response and the next attempt is r seconds in total.
C10_RetryAfterReplacesBackoff ==
    \A p \in Callers :
        \A i \in 1..Len(sleeps[p]) :
            (sleeps[p][i].kind = "retry_after" /\ pc[p] = "in_flight"
                /\ sleeps[p][i].attempt < attempt[p]) =>
                WaitAfter(p, sleeps[p][i].attempt) = sleeps[p][i].len

\* ------------------------------------------------ properties of the routes

\* the route function is suspended in an HTTP request to Spotify made by
\* oauth.py (the refresh-token exchange or the profile lookup)
OAuthRequest == rpc \in Refreshing \cup {"get_user_profile"}

\* C11: every HTTP request to Spotify, the refresh-token exchange of token
\* resolution and the profile lookup included, is issued through
\* _spotify_api_call: while the route function awaits the answer to such a
\* request, a caller is inside spotify_circuit_breaker.call_with_breaker
\* with the request in flight under the retry loop.
C11_RequestsThroughApiCall ==
    OAuthRequest => \E p \in Callers : pc[p] = "in_flight"

\* the user-scoped functions: top artists, top tracks and the playlist
\* operations
UserScoped ==
    {"get_user_top_artists", "get_user_top_tracks", "get_user_playlists",
     "create_spotify_playlist", "update_spotify_playlist",
     "delete_spotify_playlist", "get_spotify_playlist"}

\* the ways _spotify_api_call fails other than with a 401
OtherFailures == {"retryable", "other", "rate_limit", "breaker_open"}

EmptyResults == {EmptyOf(o) : o \in Ops}

\* C12: for every user-scoped gateway function, an upstream 401 gives the
\* caller an outcome that no other upstream failure gives and that is not
\* an empty or null result.
C12_UnauthorizedDistinguishable ==
    \A p \in Callers :
        (op[p] \in UserScoped /\ result[p].cause = "unauthorized")
        => /\ result[p].value \notin EmptyResults
           /\ \A k \in OtherFailures, body \in BOOLEAN :
                 result[p].value # Returned(op[p], k, body)

\* C13: while the Spotify breaker is open, a gateway function that needs an
\* upstream call (the genre search of a recommendation request included)
\* ends for its caller in the breaker's exception, the service-unavailable
\* outcome, never in an empty or not-found result.
C13_BreakerOpenIsUnavailable ==
    \A p \in Callers :
        result[p].cause = "breaker_open"
        => result[p].value = "raise" /\ result[p].value \notin EmptyResults

\* ------------------------------------- properties of the token resolution

Range(s) == {s[i] : i \in 1..Len(s)}
Calls(name) == {e \in Range(events) : e.call = name}
VaultReads == Calls("get_session_tokens") \cup Calls("get_user_tokens")
VaultWrites == Calls("put_session_tokens") \cup Calls("put_user_tokens")

\* the resolver of route h accepts the header and decodes its token
VerifiedBy(h) ==
    IF h = "get_current_user"
    THEN cred.scheme \in {"Bearer ", "bearer "} /\ cred.jwt
    ELSE h # "none" /\ VerifyCut(cred)

Verified == VerifiedBy(handler)

\* C14: in every token resolver, when the credential carries an embedded
\* spotify_access_token, that token is the one returned and neither
\* get_session_tokens nor get_user_tokens is called.
C14_EmbeddedTokenFirst ==
    (Verified /\ cred.spotify_access_token # NoToken)
    => /\ spotify_token = cred.spotify_access_token
       /\ VaultReads = {}

RefreshCalls == Calls("refresh_spotify_token")

\* a route function starts on a credential its resolver accepts, that has
\* no embedded token and names a session whose row decrypts and has not
\* expired
ValidSessionRow ==
    /\ rpc = "idle" /\ rpc' # "idle"
    /\ VerifiedBy(handler')
    /\ cred.spotify_access_token = NoToken
    /\ cred.session_id
    /\ get_session_tokens(vault) # NoRow
    /\ Decrypts(get_session_tokens(vault).access_token)
    /\ get_session_tokens(vault).expires_at > now

\* the token resolved is the access token of the session row; nothing was
\* refreshed and nothing written (the route goes on with the token: it
\* fails, if at all, after the resolution, on closing the cache)
SessionTokenReturned ==
    /\ \/ status' \in {0, 200}
       \/ /\ status' = 500
          /\ events'[Len(events')] = Event("redis", "close raised")
    /\ spotify_token' = decrypt(get_session_tokens(vault).access_token)
    /\ RefreshCalls' = {}
    /\ VaultWrites' = {}
    /\ vault' = vault

\* C15 as stated: given a credential without an embedded token and with a
\* session id whose row decrypts and has expires_at > now, token
\* resolution returns the decrypted access token of the row, makes no
\* refresh call and writes nothing to the vault.
C15_ValidSessionRowReturned ==
    [][ValidSessionRow => SessionTokenReturned]_vars

\* C15, amended: the same for a row whose access token decrypts to a
\* non-empty value.
C15_NonEmptySessionTokenReturned ==
    [][(ValidSessionRow /\ decrypt(get_session_tokens(vault).access_token) # NoToken)
       => SessionTokenReturned]_vars

C15_Witness ==
    /\ handler = "get_current_user" /\ rpc = "get_user_profile"
    /\ cred.spotify_access_token = NoToken /\ cred.session_id
    /\ get_session_tokens(vault).expires_at > now
    /\ spotify_token = "at_session"
    /\ Calls("get_session_tokens") # {}
    /\ RefreshCalls = {} /\ VaultWrites = {}

CountCalls(name) == Len(SelectSeq(events, LAMBDA e : e.call = name))
Position(name) == CHOOSE i \in 1..Len(events) : events[i].call = name

\* get_current_user starts on a credential without an embedded token that
\* names a session whose row has expired and holds a refresh token
ExpiredSessionRow ==
    /\ rpc = "idle" /\ handler' = "get_current_user"
    /\ VerifiedBy(handler')
    /\ cred.spotify_access_token = NoToken
    /\ cred.session_id
    /\ get_session_tokens(vault) # NoRow
    /\ get_session_tokens(vault).expires_at <= now
    /\ Decrypts(get_session_tokens(vault).refresh_token)
    /\ decrypt(get_session_tokens(vault).refresh_token) # NoToken

\* one refresh call with the refresh token of the row is under way
RefreshRequested ==
    /\ rpc' = "refresh_session"
    /\ refresh_token_val' = decrypt(get_session_tokens(vault).refresh_token)
    /\ events'[Len(events')] =
          Event("refresh_spotify_token", refresh_token_val')
    /\ CountCalls("refresh_spotify_token")' = 1
    /\ Calls("get_user_tokens")' = {} /\ VaultWrites' = {}
    /\ vault' = vault

\* the refresh call for the session row is answered with a new token
RefreshAnswered ==
    /\ rpc = "refresh_session"
    /\ CountCalls("access_token")' > CountCalls("access_token")

\* the new pair and expiry are in the session row, the user row is as it
\* was and unread, and the function has gone on to use the new access token
NewPairStored ==
    LET access == events'[Position("access_token")'].arg
        refresh == events'[Position("refresh_token")'].arg
    IN  /\ vault' = [vault EXCEPT !["session_id"] =
                        [access_token |-> encrypt(access),
                         refresh_token |->
                            encrypt(IF refresh # NoToken THEN refresh
                                                         ELSE refresh_token_val),
                         expires_at |-> now + DefaultExpiresIn]]
        /\ rpc' = "get_user_profile"
        /\ spotify_token' = access
        /\ CountCalls("refresh_spotify_token")' = 1
        /\ CountCalls("put_session_tokens")' = 1
        /\ Position("put_session_tokens")' < Position("get_user_profile")'
        /\ Calls("get_user_tokens")' = {} /\ Calls("put_user_tokens")' = {}

RefreshFailed ==
    /\ rpc \in Refreshing /\ rpc' # rpc
    /\ CountCalls("access_token")' = CountCalls("access_token")

\* C17: when the refresh call for a row fails, the resolver takes the step
\* as one that gave no token and goes on with the remaining steps (after
\* the session row, the user row): the failure itself does not fail the
\* request, which ends unauthenticated only when no remaining step gives
\* a token, and never in a 500.
C17_RefreshFailureSwallowed ==
    [][RefreshFailed =>
        /\ status' # 500
        /\ rpc = "refresh_session" => Calls("get_user_tokens")' # {}
        /\ status' = 401 => spotify_token' = NoToken]_vars

\* C18: a stored access-token or refresh-token ciphertext that does not
\* decrypt never makes token resolution end in an unhandled error: the
\* reading and decrypting of the rows does not answer 500.
C18_DecryptFailureHandled ==
    [][(rpc = "idle" /\ handler' = "get_current_user") => status' # 500]_vars

\* the routes whose operation needs the user's token
UserScopedRoutes == {"get_current_user", "get_artist_info"}
UpstreamCalls ==
    Calls("get_user_profile") \cup Calls("get_artist") \cup Calls("get_track")

\* C19: for a user-scoped operation, when no step (embedded token, session
\* row, user row, refresh) gives a token, the request fails with 401, and
\* no upstream call is made with an empty or missing bearer token.
C19_NoTokenIsUnauthenticated ==
    handler \in UserScopedRoutes =>
        /\ (rpc = "done" /\ Verified /\ spotify_token = NoToken) => status = 401
        /\ \A e \in UpstreamCalls : e.arg # NoToken

\* the route function has a token to call Spotify with
Resolved ==
    /\ rpc \in {"get_user_profile", "get_artist", "get_track"} \/ status = 200
    /\ spotify_token # NoToken

\* C20: token resolution never returns the access token of a row whose
\* expires_at <= now; such a row gives a token only through a successful
\* refresh (which replaces the token and the expiry of the row).
C20_NoExpiredToken ==
    Resolved =>
        \A id \in Ids :
            (vault[id] # NoRow /\ vault[id].expires_at <= now)
            => TryDecrypt(vault[id].access_token) # spotify_token

\* the functions of db.py that write the token table, called in any order
\* with any identifier
InitVault ==
    /\ breaker = NewBreaker(SpotifyFailureThreshold, SpotifyRecoveryTimeout)
    /\ now = 0
    /\ retry = NoRetry
    /\ InitCallers
    /\ InitGateway
    /\ InitRequest

NextVault ==
    \/ \E id \in SubjectIds, a, r \in Ciphertexts, e \in 0..MaxExpiry :
          put_user_tokens(id, a, r, e)
    \/ \E id, u \in SubjectIds, a, r \in Ciphertexts, e \in 0..MaxExpiry :
          put_session_tokens(id, u, a, r, e)
    \/ \E id \in SubjectIds : delete_session_tokens(id)

SpecVault == InitVault /\ [][NextVault]_vars

\* get_spotify_recommendations called once, with any arguments and any
\* answers of Spotify
Arguments ==
    [route : {"direct"}, spotify_token : {NoToken, "at"},
     limit : 1..MaxLimit,
     genres : {NoSeeds, <<"pop">>, <<"rock", "pop", "jazz", "folk">>},
     seed_artists : {NoSeeds, <<"a1", "a2">>},
     seed_tracks : {NoSeeds, <<"s1">>},
     min_popularity : NoPopularity..(MaxPopularity + 1),
     market_override : {"GB"}, time_range : {"medium_term"}]

InitSynth ==
    /\ breaker = NewBreaker(SpotifyFailureThreshold, SpotifyRecoveryTimeout)
    /\ now = 0
    /\ retry = NoRetry
    /\ InitCallers
    /\ InitGateway
    /\ vault = [id \in Ids |-> NoRow]
    /\ cred = NoCredential
    /\ handler = "none"
    /\ rpc = "idle"
    /\ spotify_token = NoToken
    /\ refresh_token_val = NoToken
    /\ events = <<>>
    /\ status = 0
    /\ InitStores
    /\ query \in Arguments
    /\ route = [step |-> "called"]
    /\ suspended = NoFrame

NextSynth == Recommend

SpecSynth == InitSynth /\ [][NextSynth]_vars

\* requests to the four recommendation routes, one after the other,
\* against a cache that keeps their responses
InitRec ==
    /\ breaker = NewBreaker(SpotifyFailureThreshold, SpotifyRecoveryTimeout)
    /\ now = 0
    /\ retry = NoRetry
    /\ InitCallers
    /\ InitGateway
    /\ InitRequest

NextRec ==
    \/ recommendations_base
    \/ recommendations_genres
    \/ recommendations_artists
    \/ recommendations_tracks
    \/ fetch_recommendations
    \/ Expire

SpecRec == InitRec /\ [][NextRec]_vars

\* ------------------------------------------- properties of the token table

PutUser(x) ==
    \E a, r \in Ciphertexts, e \in 0..MaxExpiry : put_user_tokens(x, a, r, e)
PutSession(x) ==
    \E u \in SubjectIds, a, r \in Ciphertexts, e \in 0..MaxExpiry :
        put_session_tokens(x, u, a, r, e)

\* C21: the user record and the session record of one identifier string
\* are independent: put_session_tokens(x, ...) leaves what
\* get_user_tokens(x) returns as it was, and put_user_tokens(x, ...) leaves
\* what get_session_tokens(x) returns as it was.
C21_KindsIndependent ==
    [][\A x \in SubjectIds :
          /\ PutSession(x) =>
                user_tokens_of(table', x) = user_tokens_of(table, x)
          /\ PutUser(x) =>
                session_tokens_of(table', x) = session_tokens_of(table, x)]_vars

\* ------------------------------------------ properties of the synthesizer

\* a direct call of get_spotify_recommendations has returned
SynthReturned == query.route = "direct" /\ route.step = "returned"

\* C22: called with a non-empty genre list, get_spotify_recommendations
\* runs branch 1 only: every call it makes is a track search for one of
\* the given genres (no top-artists, top-tracks, artist-top-tracks or
\* track-lookup call), whatever artist or track seeds come with them, and
\* with a token it makes such a search.
C22_GenresOnlySearch ==
    (SynthReturned /\ query.genres # NoSeeds) =>
        /\ \A i \in 1..Len(fetched) :
              /\ fetched[i].call = "search"
              /\ \E j \in 1..Len(query.genres) : fetched[i].arg = query.genres[j]
        /\ query.spotify_token # NoToken => fetched # <<>>

C22_Witness ==
    /\ SynthReturned
    /\ query.genres # NoSeeds
    /\ query.seed_artists # NoSeeds
    /\ query.seed_tracks # NoSeeds
    /\ Len(fetched) = 3
    /\ reply.results # <<>>

\* the call was made without seeds and with a token
Seedless ==
    /\ query.genres = NoSeeds
    /\ query.seed_artists = NoSeeds
    /\ query.seed_tracks = NoSeeds
    /\ query.spotify_token # NoToken

\* the top-artists call was answered, by artists without genre tags or by
\* no artist
NoGenreTags ==
    /\ fetched # <<>>
    /\ fetched[1].call = "top_artists"
    /\ fetched[1].answer.ok
    /\ user_genres(fetched[1].answer.items) = <<>>

\* C23: called without seeds when the caller's top artists carry no genre
\* tag, get_spotify_recommendations collects the tracks by searching the
\* default genre list as in branch 1, and the metadata gives the default
\* genres as the seeds used.
C23_DefaultGenresSearched ==
    (SynthReturned /\ Seedless /\ NoGenreTags) =>
        /\ \A i \in 2..Len(fetched) :
              /\ fetched[i].call = "search"
              /\ \E j \in 1..Len(DEFAULT_GENRES) :
                    fetched[i].arg = DEFAULT_GENRES[j]
        /\ Len(fetched) > 1
        /\ reply.meta.seedsUsed = {<<"seed_genres", Join(DEFAULT_GENRES)>>}

\* the popularity of a track, 0 when Spotify gave none
Popularity(t) == IF t.popularity = NoPopularity THEN 0 ELSE t.popularity

\* C25: for every min_popularity m in 0..100 and every collected list, the
\* result of get_spotify_recommendations holds exactly the tracks kept
\* after the truncation to limit whose popularity is >= m, in their order:
\* a track of popularity m is retained, none below m is returned.
C25_PopularityInclusive ==
    (SynthReturned /\ query.min_popularity >= 0) =>
        LET AtLeast(t) == Popularity(t) >= query.min_popularity
            retained == SelectSeq(route.kept, AtLeast)
        IN  reply.results = [i \in 1..Len(retained) |-> Entry(retained[i])]

C25_Witness ==
    /\ SynthReturned
    /\ query.min_popularity = 1
    /\ \E i, j \in 1..Len(route.kept) :
          /\ route.kept[i].popularity = 1
          /\ route.kept[j].popularity = 0
    /\ Len(reply.results) = 1
    /\ reply.results[1].popularity = 1

\* ------------------------------------------------ properties of the routes

\* the request has been answered
Answered == query.route # "none" /\ route.step = "done"

\* a request to a recommendation route that names no seeds
SeedlessRequest ==
    /\ query.route \in {"recommendations_base", "recommendations_genres",
                        "recommendations_artists", "recommendations_tracks"}
    /\ Authenticated(query)
    /\ query.route # "recommendations_base" => query.seeds = NoSeeds
    /\ query.route = "recommendations_base" =>
          query.released_after = NoDate \/ ValidDate(query.released_after)

\* a top-artists call of the request failed
TopArtistsFailed ==
    \E i \in 1..Len(fetched) :
        fetched[i].call = "top_artists" /\ ~fetched[i].answer.ok

\* C24: when the top-artists fetch fails during a seedless recommendation
\* request, HTTP 401 included, the caller gets a normal result and no
\* error, computed (unless the cache has it) from the default genre list
\* as when the user has no genres.
C24_TopArtistsFailureDefaults ==
    (Answered /\ SeedlessRequest /\ TopArtistsFailed /\ route.cache # "hit") =>
        /\ reply.status = 200
        /\ \E i \in 1..Len(fetched) : fetched[i].call = "search"
        /\ \A i \in 1..Len(fetched) :
              fetched[i].call = "search" =>
                  \E j \in 1..Len(DEFAULT_GENRES) :
                      fetched[i].arg = DEFAULT_GENRES[j]
        /\ reply.meta.fallback = "custom_algorithm"

\* C26: with released_after = D no returned track has an album release
\* date earlier than D, a year-only or year-month date counting as the
\* first day of that period, and every track kept by the truncation that
\* was released on or after D is returned.
C26_ReleasedAfterFilters ==
    LET FirstDay(d) == <<d[1], IF Len(d) >= 2 THEN d[2] ELSE 1,
                         IF Len(d) >= 3 THEN d[3] ELSE 1>>
        Earlier(a, b) ==
            \/ a[1] < b[1]
            \/ a[1] = b[1] /\ a[2] < b[2]
            \/ a[1] = b[1] /\ a[2] = b[2] /\ a[3] < b[3]
        Precedes(d) == Earlier(FirstDay(d), query.released_after)
    IN  (/\ Answered
         /\ query.route = "recommendations_base"
         /\ ValidDate(query.released_after)
         /\ reply.status = 200) =>
            /\ \A i \in 1..Len(reply.results) :
                  ~Precedes(reply.results[i].release_date)
            /\ route.cache # "hit" =>
                  \A i \in 1..Len(route.kept) :
                      ~Precedes(route.kept[i].release_date) =>
                          \E j \in 1..Len(reply.results) :
                              reply.results[j] = Entry(route.kept[i])

\* C27: the response to a request with limit L holds at most L tracks,
\* whether the synthesizer computed it or the ResultCache served it.
C27_AtMostLimit ==
    (Answered /\ reply.status = 200) => Len(reply.results) <= query.limit

\* the request named seeds for the artists or the tracks route and was
\* answered by the synthesizer
ExplicitSeeds(name) ==
    /\ Answered
    /\ query.route = name
    /\ query.seeds # NoSeeds
    /\ reply.status = 200
    /\ route.cache # "hit"

\* C28: explicit seedArtists (seedTracks) are the primary seeds of the
\* artists (tracks) route: the synthesizer fetches the top tracks of those
\* artists (looks those tracks up) even when the route adds genre seeds,
\* and the metadata gives the artist (track) seeds as used.
C28_ExplicitSeedsPrimary ==
    /\ ExplicitSeeds("recommendations_artists") =>
          /\ \A i \in 1..Len(query.seeds) : \E j \in 1..Len(fetched) :
                /\ fetched[j].call = "artist_top_tracks"
                /\ fetched[j].arg = query.seeds[i]
          /\ <<"seed_artists", Join(query.seeds)>> \in reply.meta.seedsUsed
    /\ ExplicitSeeds("recommendations_tracks") =>
          /\ \A i \in 1..Len(query.seeds) : \E j \in 1..Len(fetched) :
                /\ fetched[j].call = "track"
                /\ fetched[j].arg = query.seeds[i]
          /\ <<"seed_tracks", Join(query.seeds)>> \in reply.meta.seedsUsed

\* the seed kind of a route
Kind(q) ==
    IF q.route = "recommendations_artists" THEN "artist"
    ELSE IF q.route = "recommendations_tracks" THEN "track" ELSE "genre"

\* C29: two requests are served from the same ResultCache entry if and
\* only if they agree on subject id, seed kind, the set of seeds whatever
\* their order, market, min_popularity and time_range: a request whose
\* cache calls succeed reads or writes the entry of key k exactly when it
\* agrees in these with the request that stored that entry (all requests
\* have the same subject).
C29_SameEntryIffAgree ==
    (Answered /\ reply.status = 200 /\ route.cache \in {"hit", "miss"}) =>
        \A k \in DOMAIN redis :
            (/\ Kind(query) = Kind(redis[k].by)
             /\ { route.seeds[i] : i \in 1..Len(route.seeds) }
                    = { redis[k].seeds[i] : i \in 1..Len(redis[k].seeds) }
             /\ query.market = redis[k].by.market
             /\ query.min_popularity = redis[k].by.min_popularity
             /\ query.time_range = redis[k].by.time_range)
            <=> k = route.cache_key

\* the cache backend raised during a call of the request
CacheRaised ==
    \E e \in Calls("redis") :
        e.arg \in {"connect raised", "get raised", "set raised", "close raised"}

\* C30: an error the cache backend raises during a connect, read, write or
\* close is caught at the call site: the request ends with the response
\* it has without a cache, not with an error of its own.
C30_CacheErrorsCaught ==
    (rpc = "done" /\ handler \in {"get_artist_info", "get_track_info"}
        /\ CacheRaised) => status \in {200, 404}

\* ------------------------------------------------ concurrent failing calls

\* failures recorded, and time passing, before the calls under observation
\* start
Prior ==
    /\ \A p \in Callers : pc[p] = "idle"
    /\ RecordFailure \/ Tick

\* every caller makes one call through call_with_breaker and its wrapped
\* function fails; the calls overlap in every order, within one second
NextBurst ==
    \/ Prior
    \/ \E p \in Callers :
        \/ call_with_breaker(p)
        \/ FailRetryable(p)

SpecBurst == Init /\ [][NextBurst]_vars

\* the callers S are inside call_with_breaker, let in by the closed breaker
\* whose failure_count is c, and no other caller has called
Admitted(S, c) ==
    /\ \A p \in Callers : pc[p] = IF p \in S THEN "in_flight" ELSE "idle"
    /\ breaker.state = "closed"
    /\ breaker.failure_count = c

\* the calls of S have all failed, and no other caller has called
AllFailed(S) ==
    \A p \in Callers : pc[p] = IF p \in S THEN "raised" ELSE "idle"

\* C31: for any interleaving of K concurrently admitted call_with_breaker
\* invocations whose wrapped calls all fail, starting from a closed breaker
\* with failure_count = c, the breaker ends with failure_count = c + K and
\* with state open whenever c + K >= failure_threshold.
C31_NoLostFailure ==
    \A S \in SUBSET Callers \ {{}} : \A c \in 0..MaxThreshold :
        [](Admitted(S, c) =>
            [](AllFailed(S) =>
                /\ breaker.failure_count = c + Cardinality(S)
                /\ (c + Cardinality(S) >= breaker.failure_threshold
                        => breaker.state = "open")))

C31_Witness ==
    /\ AllFailed(Callers)
    /\ breaker.failure_threshold = MaxThreshold
    /\ breaker.failure_count = (MaxThreshold - 1) + NumCallers
    /\ breaker.state = "open"

\* ------------------------------------------------ record_success, revisited

\* a call made through call_with_breaker returns its result: the step in
\* which call_with_breaker calls record_success
SuccessRecorded ==
    \E p \in Callers : pc[p] = "in_flight" /\ pc'[p] = "returned"

\* C32: record_success() changes the breaker only in half-open state: in
\* closed and in open state it leaves state, failure_count and
\* last_failure_time unchanged, so a successful call on a closed breaker
\* does not reset failure_count.
C32_SuccessOnlyInHalfOpen ==
    [][SuccessRecorded =>
          IF breaker.state = "half-open"
          THEN breaker' # breaker
          ELSE /\ breaker'.state = breaker.state
               /\ breaker'.failure_count = breaker.failure_count
               /\ breaker'.last_failure_time = breaker.last_failure_time]_vars

C32_Witness ==
    \E p \in Callers :
        /\ pc[p] = "returned"
        /\ admitted[p] = "closed"
        /\ breaker.state = "closed"
        /\ breaker.failure_count > 0

\* ------------------------------------------------- breaker state invariants

\* C36: in every reachable state of a breaker that is changed only through
\* is_open, record_success, record_failure and call_with_breaker, state is
\* one of closed, open, half-open; failure_count >= 0; and state in
\* {open, half-open} implies failure_count >= failure_threshold and
\* last_failure_time is set.
C36_BreakerInvariants ==
    /\ breaker.state \in {"closed", "open", "half-open"}
    /\ breaker.failure_count >= 0
    /\ breaker.state \in {"open", "half-open"} =>
            /\ breaker.failure_count >= breaker.failure_threshold
            /\ breaker.last_failure_time # NoTime

C36_Witness ==
    /\ breaker.state = "half-open"
    /\ breaker.failure_count > breaker.failure_threshold
    /\ \E p \in Callers : pc[p] = "in_flight" /\ admitted[p] = "half-open"

\* ------------------------------------------------------ non-2xx responses

\* the response to the request of caller p is not a 2xx (and not a 429):
\* the step in which raise_for_status() raises
NonSuccess(p) ==
    /\ pc[p] = "in_flight"
    /\ \/ pc'[p] = "raised" /\ outcome'[p].kind = "retryable"
       \/ /\ pc'[p] = "backoff"
          /\ sleeps'[p][Len(sleeps'[p])].exc = "retryable"

\* C37: every non-2xx upstream response, 401, 403 and 404 included, is
\* treated by _spotify_api_call as a retryable failure: the request is
\* attempted max_retries + 1 = 4 times and, if all attempts fail, one
\* breaker failure is recorded, so that five consecutive calls answered
\* with 404 open the Spotify breaker.
C37_NonSuccessRetried ==
    [][\A p \in Callers :
          NonSuccess(p) =>
              IF calls[p] < SpotifyMaxRetries + 1
              THEN pc'[p] = "backoff" /\ breaker' = breaker
              ELSE /\ calls[p] = 4
                   /\ pc'[p] = "raised"
                   /\ breaker'.failure_count = breaker.failure_count + 1
                   /\ breaker'.failure_count >= SpotifyFailureThreshold
                        => breaker'.state = "open"]_vars

C37_Witness ==
    /\ pc[1] = "raised"
    /\ outcome[1] = [kind |-> "retryable", attempt |-> 3]
    /\ calls[1] = 4
    /\ Len(sleeps[1]) = 3
    /\ breaker.failure_count = 5
    /\ breaker.state = "open"
    /\ now = 0

\* ------------------------------------------------- cached empty responses

\* get_spotify_recommendations has returned to a route and the route's
\* redis_cache_set went through
Synthesized ==
    /\ route.step = "fetch" /\ route'.step = "done"
    /\ route'.written = "set"

\* a request arrives whose key the cache holds, and the cache can be read
KeyCached ==
    /\ Arrives /\ query' # query
    /\ route'.cache_key \in DOMAIN redis
    /\ route'.cache # "raised"

\* C38: the recommendation routes write the response to the cache after
\* every synthesis, a synthesis that returned an empty result because the
\* upstream calls failed included; a later request with the same key,
\* while the entry lasts, is served that stored response without any
\* synthesizer call, whatever Spotify would answer by then.
C38_EmptyResultCached ==
    [][/\ Synthesized =>
            /\ route.cache_key \in DOMAIN redis'
            /\ redis'[route.cache_key].value = reply'
       /\ KeyCached =>
            /\ route'.step = "done" /\ route'.cache = "hit"
            /\ reply' = redis[route'.cache_key].value
            /\ redis' = redis]_vars

C38_Witness ==
    /\ Answered /\ route.cache = "hit"
    /\ reply.status = 200 /\ reply.results = <<>>
    /\ reply.meta.fallback = "fallback_used"
    /\ route.cache_key \in DOMAIN redis
    /\ redis[route.cache_key].by # query

\* requests to the genres route, one after the other, against the cache
NextCache ==
    \/ recommendations_genres
    \/ fetch_recommendations
    \/ Expire

SpecCache == InitRec /\ [][NextCache]_vars

\* ------------------------------------------------------ playlist routes
\* routes/playlists.py.  A request carries the three headers the routes
\* read; a Bearer token is a JWT of this service, a Spotify access token,
\* or neither.

Users == {"u1", "u2"}
TrackIds == {"t1"}
access_token_of(u) == IF u = "u1" THEN "at_u1" ELSE "at_u2"

Authorizations ==
    { [kind |-> k, user_id |-> "none", spotify_access_token |-> NoToken] :
        k \in {"none", "Basic", "garbage"} }
    \cup UNION { { [kind |-> "jwt", user_id |-> u, spotify_access_token |-> t] :
                       t \in {NoToken, access_token_of(u)} } : u \in Users }
    \cup { [kind |-> "spotify", user_id |-> u,
            spotify_access_token |-> access_token_of(u)] : u \in Users }

Headers ==
    { [authorization |-> a, x_api_key |-> k, x_user_id |-> x] :
        a \in Authorizations, k \in {"none", "valid", "invalid"},
        x \in {"none"} \cup Users }

Caller(code, u, t) == [raise |-> code, user_id |-> u, spotify_token |-> t]

\* get_authenticated_user: what it returns or the status it raises;
\* profile is whether Spotify answered get_user_profile with a profile
get_authenticated_user(h, profile) ==
    LET a == h.authorization IN
    IF a.kind = "Basic" THEN Caller(401, "none", NoToken)
    ELSE IF a.kind = "jwt" THEN Caller(0, a.user_id, a.spotify_access_token)
    ELSE IF a.kind = "spotify" /\ profile
        THEN Caller(0, a.user_id, a.spotify_access_token)
    ELSE IF h.x_api_key = "none" THEN Caller(401, "none", NoToken)
    ELSE IF h.x_api_key = "invalid" THEN Caller(403, "none", NoToken)
    ELSE IF h.x_user_id = "none" THEN Caller(401, "none", NoToken)
    ELSE Caller(0, h.x_user_id, NoToken)

\* what get_authenticated_user gives the route, over every request and
\* every answer of Spotify
AuthenticatedUsers ==
    { get_authenticated_user(h, profile) : h \in Headers, profile \in BOOLEAN }

\* the response of a playlist route: what was asked, by whom, the status
PlaylistAnswer(name, id, c, code) ==
    [route |-> name, playlist_id |-> id, user_id |-> c.user_id,
     status |-> code]

plframe == <<callvars, gwvars, authvars, table, query, route, redis, fetched,
             oauth_states, _auth_states_fallback, suspended>>

\* db.create_playlist: a row of the playlists table for user u
db_create_playlist ==
    \E id \in PlaylistIds, u \in Users :
        /\ playlists[id] = NoPlaylist
        /\ playlists' = [playlists EXCEPT ![id] = [userId |-> u, tracks |-> {}]]
        /\ UNCHANGED <<plframe, spotify_playlists, reply>>

\* POST /api/playlists: Spotify makes the playlist under a new id and
\* the route syncs it into spotify_playlists
create_playlist ==
    \E c \in AuthenticatedUsers, id \in PlaylistIds, made \in BOOLEAN :
        /\ spotify_playlists[id] = NoPlaylist
        /\ IF c.raise # 0
              THEN /\ reply' = PlaylistAnswer("create_playlist", id, c, c.raise)
                   /\ UNCHANGED spotify_playlists
           ELSE IF c.spotify_token = NoToken
              THEN /\ reply' = PlaylistAnswer("create_playlist", id, c, 401)
                   /\ UNCHANGED spotify_playlists
           ELSE IF ~made
              THEN /\ reply' = PlaylistAnswer("create_playlist", id, c, 503)
                   /\ UNCHANGED spotify_playlists
           ELSE /\ reply' = PlaylistAnswer("create_playlist", id, c, 201)
                /\ spotify_playlists' =
                     [spotify_playlists EXCEPT ![id] = [userId |-> c.user_id]]
        /\ UNCHANGED <<plframe, playlists>>

\* PUT /api/playlists/{playlist_id}: success is what
\* update_spotify_playlist returned, synced what get_spotify_playlist gave
update_playlist ==
    \E c \in AuthenticatedUsers, id \in PlaylistIds,
       success \in BOOLEAN, synced \in BOOLEAN :
        /\ IF c.raise # 0
              THEN /\ reply' = PlaylistAnswer("update_playlist", id, c, c.raise)
                   /\ UNCHANGED spotify_playlists
           ELSE IF c.spotify_token = NoToken
              THEN /\ reply' = PlaylistAnswer("update_playlist", id, c, 401)
                   /\ UNCHANGED spotify_playlists
           ELSE IF ~success
              THEN /\ reply' = PlaylistAnswer("update_playlist", id, c, 503)
                   /\ UNCHANGED spotify_playlists
           ELSE /\ reply' = PlaylistAnswer("update_playlist", id, c, 200)
                /\ spotify_playlists' =
                     IF synced
                     THEN [spotify_playlists EXCEPT ![id] = [userId |-> c.user_id]]
                     ELSE spotify_playlists
        /\ UNCHANGED <<plframe, playlists>>

\* DELETE /api/playlists/{playlist_id}: success is what
\* delete_spotify_playlist (an unfollow) returned
delete_playlist ==
    \E c \in AuthenticatedUsers, id \in PlaylistIds, success \in BOOLEAN :
        /\ IF c.raise # 0
              THEN /\ reply' = PlaylistAnswer("delete_playlist", id, c, c.raise)
                   /\ UNCHANGED spotify_playlists
           ELSE IF c.spotify_token = NoToken
              THEN /\ reply' = PlaylistAnswer("delete_playlist", id, c, 401)
                   /\ UNCHANGED spotify_playlists
           ELSE IF ~success
              THEN /\ reply' = PlaylistAnswer("delete_playlist", id, c, 503)
                   /\ UNCHANGED spotify_playlists
           ELSE /\ reply' = PlaylistAnswer("delete_playlist", id, c, 200)
                /\ spotify_playlists' =
                     [spotify_playlists EXCEPT ![id] = NoPlaylist]
        /\ UNCHANGED <<plframe, playlists>>

\* POST /api/playlists/{playlist_id}/tracks
add_track ==
    \E c \in AuthenticatedUsers, id \in PlaylistIds, t \in TrackIds :
        LET existing == playlists[id] IN
        /\ IF existing = NoPlaylist
              THEN /\ reply' = PlaylistAnswer("add_track", id, Caller(0, "none", NoToken), 404)
                   /\ UNCHANGED playlists
           ELSE IF c.raise # 0
              THEN /\ reply' = PlaylistAnswer("add_track", id, c, c.raise)
                   /\ UNCHANGED playlists
           ELSE IF existing.userId # c.user_id
              THEN /\ reply' = PlaylistAnswer("add_track", id, c, 403)
                   /\ UNCHANGED playlists
           ELSE /\ reply' = PlaylistAnswer("add_track", id, c, 201)
                /\ playlists' = [playlists EXCEPT
                                   ![id].tracks = existing.tracks \cup {t}]
        /\ UNCHANGED <<plframe, spotify_playlists>>

\* DELETE /api/playlists/{playlist_id}/tracks/{track_id}
remove_track ==
    \E c \in AuthenticatedUsers, id \in PlaylistIds, t \in TrackIds :
        LET existing == playlists[id] IN
        /\ IF existing = NoPlaylist
              THEN /\ reply' = PlaylistAnswer("remove_track", id, Caller(0, "none", NoToken), 404)
                   /\ UNCHANGED playlists
           ELSE IF c.raise # 0
              THEN /\ reply' = PlaylistAnswer("remove_track", id, c, c.raise)
                   /\ UNCHANGED playlists
           ELSE IF existing.userId # c.user_id
              THEN /\ reply' = PlaylistAnswer("remove_track", id, c, 403)
                   /\ UNCHANGED playlists
           ELSE /\ reply' = PlaylistAnswer("remove_track", id, c, 200)
                /\ playlists' = [playlists EXCEPT
                                   ![id].tracks = existing.tracks \ {t}]
        /\ UNCHANGED <<plframe, spotify_playlists>>

NextPlaylists ==
    \/ db_create_playlist
    \/ create_playlist
    \/ update_playlist
    \/ delete_playlist
    \/ add_track
    \/ remove_track

SpecPlaylists == InitVault /\ [][NextPlaylists]_vars

\* the request just answered was made by an authenticated user other than
\* the one the playlist row names
ByNonOwner ==
    /\ reply' # reply
    /\ reply'.route \in {"update_playlist", "delete_playlist", "add_track",
                         "remove_track"}
    /\ reply'.user_id # "none"
    /\ LET row == IF reply'.route \in {"add_track", "remove_track"}
                  THEN playlists[reply'.playlist_id]
                  ELSE spotify_playlists[reply'.playlist_id] IN
       /\ row # NoPlaylist
       /\ row.userId # reply'.user_id

\* C33: a request to update or delete a playlist, or to add or remove a
\* track, made by an authenticated user who is not the playlist's userId
\* is answered 403 and leaves the playlist as it was
C33_NonOwnerForbidden ==
    [][ByNonOwner =>
          /\ reply'.status = 403
          /\ playlists' = playlists
          /\ spotify_playlists' = spotify_playlists]_vars

\* ------------------------------------------------- DELETE /api/gdpr/user
\* routes/gdpr.py.  The rows of user_tokens and the JWTs of the resolver
\* section are those of the user Subject.

Subject == "u1"

\* the empty string put_user_tokens is given for the access token: not a
\* Fernet token.  The empty refresh token and expiry are stored as Null:
\* every reader tests the two for truth only, which "" and NULL fail alike
EmptyString == [key |-> "empty", plain |-> NoToken]

\* db.get_playlists_for_user and db.delete_playlist over its result
delete_playlists_for_user(pl, u) ==
    [id \in PlaylistIds |-> IF pl[id] # NoPlaylist /\ pl[id].userId = u
                            THEN NoPlaylist ELSE pl[id]]

\* "2. Delete user tokens/sessions": db.put_user_tokens(user_id, "", "", "")
clear_tokens(v) ==
    put_tokens(v, "user_id", EmptyString, Null, NoTime)

Deleted(u, code) == [route |-> "delete_user_data", user_id |-> u, status |-> code]

\* the whole handler.  c is the Authorization header, a JWT of Subject;
\* raised is an exception of the database inside the try block
delete_user_data ==
    \E c \in Credentials, user_id \in Users,
       confirmation \in {"confirm-deletion", "yes"}, raised \in BOOLEAN :
        /\ rpc = "idle"
        /\ IF c.scheme = "None" \/ c.scheme = "" \/ ~c.jwt
              THEN /\ reply' = Deleted(user_id, 401)
                   /\ UNCHANGED <<playlists, vault>>
           ELSE IF Subject # user_id
              THEN /\ reply' = Deleted(user_id, 403)
                   /\ UNCHANGED <<playlists, vault>>
           ELSE IF confirmation # "confirm-deletion"
              THEN /\ reply' = Deleted(user_id, 400)
                   /\ UNCHANGED <<playlists, vault>>
           ELSE IF raised
              THEN /\ reply' = Deleted(user_id, 500)
                   /\ UNCHANGED <<playlists, vault>>
           ELSE /\ reply' = Deleted(user_id, 200)
                /\ playlists' = delete_playlists_for_user(playlists, user_id)
                /\ vault' = clear_tokens(vault)
        /\ UNCHANGED <<callvars, gwvars, cred, handler, rpc, spotify_token,
                       refresh_token_val, events, status, table, query, route,
                       redis, fetched, spotify_playlists, oauth_states,
                       _auth_states_fallback, suspended>>

\* the rows a login and a refresh of the running process leave
StoredRows(id) ==
    { r \in Rows(id) : /\ r.access_token = encrypt(AccessToken(id))
                       /\ r.refresh_token = encrypt(RefreshToken(id)) }

InitGdpr ==
    /\ breaker = NewBreaker(SpotifyFailureThreshold, SpotifyRecoveryTimeout)
    /\ now = 1
    /\ retry = NoRetry
    /\ InitCallers
    /\ InitGateway
    /\ vault \in [Ids -> UNION {StoredRows(id) : id \in Ids} \cup {NoRow}]
    /\ \A id \in Ids : vault[id] \in StoredRows(id) \cup {NoRow}
    /\ cred \in Credentials
    /\ handler = "none"
    /\ rpc = "idle"
    /\ spotify_token = NoToken
    /\ refresh_token_val = NoToken
    /\ events = <<>>
    /\ status = 0
    /\ InitRoutes

NextGdpr ==
    \/ db_create_playlist
    \/ delete_user_data
    \/ get_current_user
    \/ RefreshSucceeds
    \/ RefreshRejected
    \/ RefreshUnreachable
    \/ ProfileReturns

SpecGdpr == InitGdpr /\ [][NextGdpr]_vars

\* a row from which a resolver gets a token: its access token decrypts to
\* a token, or its refresh token does and buys one
Usable(row) ==
    \/ TryDecrypt(row.access_token) # NoToken
    \/ TryDecrypt(row.refresh_token) # NoToken

\* the data of Subject has been deleted, and nobody has logged in since
Forgotten == reply = Deleted(Subject, 200)

\* C34: once delete_user_data(U) has succeeded no playlist of U is left,
\* neither the row of the user nor the row of the session holds a usable
\* token, and a request that brings no token of its own is answered 401
C34_NothingLeft ==
    Forgotten =>
        /\ \A id \in PlaylistIds :
              playlists[id] = NoPlaylist \/ playlists[id].userId # Subject
        /\ \A id \in Ids : ~Usable(vault[id])
        /\ (/\ rpc = "done"
            /\ handler = "get_current_user"
            /\ cred.spotify_access_token = NoToken) => status = 401

\* ------------------------------------------- two requests on one event loop
\* Two GET /api/auth/me requests of Subject are in progress.  The routes
\* are coroutines of one event loop: one runs from an await to the next
\* while the other stays suspended at its own await.

Frame ==
    [cred |-> cred, handler |-> handler, rpc |-> rpc,
     spotify_token |-> spotify_token, refresh_token_val |-> refresh_token_val,
     events |-> events, status |-> status]

\* the event loop resumes the other request
Switch ==
    /\ suspended # NoFrame
    /\ suspended' = Frame
    /\ cred' = suspended.cred
    /\ handler' = suspended.handler
    /\ rpc' = suspended.rpc
    /\ spotify_token' = suspended.spotify_token
    /\ refresh_token_val' = suspended.refresh_token_val
    /\ events' = suspended.events
    /\ status' = suspended.status
    /\ UNCHANGED <<callvars, gwvars, vault, table, query, route, redis, fetched,
                   reply, playlists, spotify_playlists, oauth_states,
                   _auth_states_fallback>>

\* the token_data Spotify answers two refreshes with: a new access token
\* each time, its lifetime, and maybe a new refresh token
Responses ==
    { [access_token |-> "at_new", refresh_token |-> rt,
       expires_in |-> DefaultExpiresIn] : rt \in {NoToken, "rt_new"} }
    \cup { [access_token |-> "at_newer", refresh_token |-> rt,
            expires_in |-> DefaultExpiresIn + 1] : rt \in {NoToken, "rt_newer"} }

RefreshAnswers ==
    /\ rpc \in Refreshing
    /\ \E r \in Responses :
          RefreshReturns(r.access_token, r.refresh_token, r.expires_in)
    /\ UNCHANGED <<cred, handler, callvars, gwvars, routevars>>

\* the JWTs of Subject that carry no Spotify token
Bearers ==
    { c \in Credentials : /\ c.scheme \in {"Bearer ", "bearer "}
                          /\ c.jwt
                          /\ c.spotify_access_token = NoToken }

InitPair ==
    /\ breaker = NewBreaker(SpotifyFailureThreshold, SpotifyRecoveryTimeout)
    /\ now = 1
    /\ retry = NoRetry
    /\ InitCallers
    /\ InitGateway
    /\ vault \in [Ids -> UNION {StoredRows(id) : id \in Ids} \cup {NoRow}]
    /\ \A id \in Ids : vault[id] \in StoredRows(id) \cup {NoRow}
    /\ cred \in Bearers
    /\ handler = "none"
    /\ rpc = "idle"
    /\ spotify_token = NoToken
    /\ refresh_token_val = NoToken
    /\ events = <<>>
    /\ status = 0
    /\ InitStores
    /\ query = NoQuery
    /\ route = [step |-> "idle"]
    /\ \E c \in Bearers :
          suspended = [cred |-> c, handler |-> "none", rpc |-> "idle",
                       spotify_token |-> NoToken, refresh_token_val |-> NoToken,
                       events |-> <<>>, status |-> 0]

NextPair ==
    \/ Switch
    \/ get_current_user
    \/ RefreshAnswers
    \/ RefreshRejected
    \/ RefreshUnreachable
    \/ ProfileReturns

SpecPair == InitPair /\ [][NextPair]_vars

\* the calls of refresh_spotify_token a request has made
RefreshesMade(ev) ==
    Cardinality({ i \in 1..Len(ev) : ev[i].call = "refresh_spotify_token" })

\* the row under id is the one a single request stored from response r
FromResponse(row, id, r) ==
    /\ row.access_token = encrypt(r.access_token)
    /\ row.expires_at = now + r.expires_in
    /\ row.refresh_token = IF r.refresh_token # NoToken
                           THEN encrypt(r.refresh_token)
                           ELSE encrypt(RefreshToken(id))

\* C35: of two concurrent requests of one subject each calls
\* refresh_spotify_token at most once, and a stored row that holds a
\* refreshed access token holds the refresh token and the expiry stored with
\* it from the same response, never fields of two responses
C35_OneResponsePerRow ==
    /\ RefreshesMade(events) <= 1
    /\ RefreshesMade(suspended.events) <= 1
    /\ \A id \in Ids :
          vault[id].access_token.plain \in {"at_new", "at_newer"} =>
              \E r \in Responses : FromResponse(vault[id], id, r)

\* both requests found the session row expired and refreshed it, Spotify
\* answered them differently, and both have stored and ended
C35_Witness ==
    /\ rpc = "done"
    /\ suspended.rpc = "done"
    /\ \E i \in 1..Len(events), j \in 1..Len(suspended.events) :
          /\ events[i] = Event("access_token", "at_newer")
          /\ suspended.events[j] = Event("access_token", "at_new")
          /\ events[i + 2] = Event("put_session_tokens", "session_id")
          /\ suspended.events[j + 2] = Event("put_session_tokens", "session_id")
    /\ vault["session_id"].access_token = encrypt("at_new")

\* ------------------------------------------------------------ OAuth state
\* oauth.py: the state tokens of the login flow, kept in Redis under
\* "oauth_state:<state>" for AUTH_STATE_TTL seconds or, when Redis fails,
\* in _auth_states_fallback for as long as the process runs.

AUTH_STATE_TTL == 900
MaxLate == 1

\* the moments at which something happens
Moments == {0, AUTH_STATE_TTL} \cup { AUTH_STATE_TTL + k : k \in 1..MaxLate }

Elapse ==
    /\ \E t \in Moments : t > now /\ now' = t
    /\ UNCHANGED <<breaker, retry, pc, attempt, calls, sleeps, outcome, admitted>>
    /\ UNCHANGED appvars

\* the payload _set_state stores
StateData(u, t) == [user_id |-> u, created_at |-> t]

\* GET oauth_state:<state>: the value, unless Redis has expired the key
redis_get(s) ==
    IF oauth_states[s] # NoState
       /\ now - oauth_states[s].created_at < AUTH_STATE_TTL
    THEN oauth_states[s] ELSE NoState

\* generate_auth_url with _set_state: a state nobody has seen is stored.
\* set and close succeed; from_url or set raises; or set succeeds and
\* close raises, which the same except clause answers
generate_auth_url ==
    \E s \in States, stored \in {"set", "raised", "close raised"} :
        /\ oauth_states[s] = NoState
        /\ _auth_states_fallback[s] = NoState
        /\ \A r \in {query, suspended} : r.route = "exchange" => r.state # s
        /\ oauth_states' =
             IF stored = "raised" THEN oauth_states
             ELSE [oauth_states EXCEPT ![s] = StateData(Subject, now)]
        /\ _auth_states_fallback' =
             IF stored = "set" THEN _auth_states_fallback
             ELSE [_auth_states_fallback EXCEPT ![s] = StateData(Subject, now)]
        /\ UNCHANGED <<callvars, gwvars, authvars, table, query, route, redis,
                       fetched, reply, playlists, spotify_playlists, suspended>>

\* the age test of exchange_code_for_token: the HTTPException it raises
\* for a state older than 15 minutes is raised inside the try block whose
\* "except Exception: pass" catches it, so the function goes on either way
age_test(data) ==
    IF now - data.created_at > AUTH_STATE_TTL THEN "caught" ELSE "passed"

\* exchange_code_for_token from the return of _pop_state to its next
\* await, the POST to the token endpoint
Popped(s, data) ==
    IF data = NoState
    THEN /\ route' = [step |-> "done"]
         /\ reply' = [status |-> 400, state |-> s]
    ELSE /\ route' = [step |-> "post", state_data |-> data,
                      age |-> now - data.created_at, test |-> age_test(data)]
         /\ reply' = NoReply

\* "return _auth_states_fallback.pop(state, None)"
PopFallback(s) ==
    /\ _auth_states_fallback' = [_auth_states_fallback EXCEPT ![s] = NoState]
    /\ Popped(s, _auth_states_fallback[s])

\* exchange_code_for_token(code, state) up to the await after r.get
exchange_code_for_token ==
    \E s \in States, got \in BOOLEAN :
        /\ query = NoQuery
        /\ route.step = "idle"
        /\ query' = [route |-> "exchange", state |-> s]
        /\ IF got /\ redis_get(s) # NoState
              THEN /\ route' = [step |-> "delete", data |-> redis_get(s)]
                   /\ UNCHANGED <<reply, _auth_states_fallback>>
              ELSE PopFallback(s)
        /\ UNCHANGED <<callvars, gwvars, authvars, table, redis, fetched,
                       playlists, spotify_playlists, oauth_states, suspended>>

\* _pop_state after r.get gave it the data: r.delete and r.close, either
\* of which may raise, and then the fallback store is asked
Deletes ==
    /\ route.step = "delete"
    /\ \E done \in {"deleted", "delete raised", "close raised"} :
        /\ oauth_states' =
             IF done = "delete raised" THEN oauth_states
             ELSE [oauth_states EXCEPT ![query.state] = NoState]
        /\ IF done = "deleted"
              THEN /\ Popped(query.state, route.data)
                   /\ UNCHANGED _auth_states_fallback
              ELSE PopFallback(query.state)
    /\ UNCHANGED <<callvars, gwvars, authvars, table, query, redis, fetched,
                   playlists, spotify_playlists, suspended>>

\* the token endpoint answers 200, another status, or httpx raises
TokenReturns ==
    /\ route.step = "post"
    /\ \E code \in {200, 400, 500} :
          reply' = [status |-> code, state |-> query.state,
                    age |-> route.age]
    /\ route' = [step |-> "done"]
    /\ UNCHANGED <<callvars, gwvars, authvars, table, query, redis, fetched,
                   storevars>>

\* the event loop resumes the other callback request
Resume ==
    /\ suspended # NoFrame
    /\ suspended' = [rpc |-> "callback", route |-> query.route,
                     state |-> IF query = NoQuery THEN "none" ELSE query.state,
                     query |-> query, step |-> route, reply |-> reply]
    /\ query' = suspended.query
    /\ route' = suspended.step
    /\ reply' = suspended.reply
    /\ UNCHANGED <<callvars, gwvars, authvars, table, redis, fetched, playlists,
                   spotify_playlists, oauth_states, _auth_states_fallback>>

InitOAuth ==
    /\ breaker = NewBreaker(SpotifyFailureThreshold, SpotifyRecoveryTimeout)
    /\ now = 0
    /\ retry = NoRetry
    /\ InitCallers
    /\ InitGateway
    /\ vault = [id \in Ids |-> NoRow]
    /\ cred = NoCredential
    /\ handler = "none"
    /\ rpc = "idle"
    /\ spotify_token = NoToken
    /\ refresh_token_val = NoToken
    /\ events = <<>>
    /\ status = 0
    /\ InitStores
    /\ query = NoQuery
    /\ route = [step |-> "idle"]
    /\ suspended = [rpc |-> "callback", route |-> "none", state |-> "none",
                    query |-> NoQuery, step |-> [step |-> "idle"],
                    reply |-> NoReply]

NextOAuth ==
    \/ Elapse
    \/ generate_auth_url
    \/ exchange_code_for_token
    \/ Deletes
    \/ TokenReturns
    \/ Resume

SpecOAuth == InitOAuth /\ [][NextOAuth]_vars

\* C39: a state is consumed by at most one successful exchange: of two
\* exchanges with the same state, concurrent or not, at most one gets as
\* far as the token request
C39_StateConsumedOnce ==
    (/\ query # NoQuery
     /\ suspended.query # NoQuery
     /\ query.state = suspended.query.state)
    => ~(/\ route.step = "post" \/ reply.status = 200
         /\ suspended.step.step = "post" \/ suspended.reply.status = 200)

\* C40: an exchange with a state created more than 15 minutes before it
\* makes no token request and is answered 400
C40_OldStateRejected ==
    /\ route.step = "post" => route.age <= AUTH_STATE_TTL
    /\ (/\ route.step = "done"
        /\ query # NoQuery
        /\ reply.status # 400) => reply.age <= AUTH_STATE_TTL

====
